---- MODULE Spec2Model ----
(***************************************************************************)
(* nQuery reactive core (signal / effect / scheduler) and query cache      *)
(* (Query / QueryClient), modelled from the library source.                *)
(*                                                                         *)
(* JavaScript is single threaded: a synchronous turn of user code runs to  *)
(* completion, then the microtask queue is drained (the scheduler's flush  *)
(* callbacks run there), then the next turn starts.  An effect's run is    *)
(* split into one step per operation of its function so that the effect    *)
(* stack, the current-effect pointer and the dependency sets can be        *)
(* observed while a run is in progress.                                    *)
(***************************************************************************)
EXTENDS Integers, Sequences, FiniteSets, TLC

\* ------------------------------------------------------------------ bounds
MaxVal == 2
MaxOps == 4
MaxDispose == 2
MaxCalls == 3
MaxTicks == 3
MaxListeners == 2
MaxEntries == 2
MaxUnsubscribe == 2

\* JavaScript's undefined (the initial value of a computed's output signal).
Undefined == -1
Null == "null"

\* ------------------------------------------------------------ the universe
EnvSignals == {"a", "b", "c"}
\* The output signals of the two computeds.
Outputs == {"out", "tot"}
Signals == EnvSignals \cup Outputs
Values == 0..MaxVal
\* The signal created with options.equals: values are compared by parity.
CustomEquals == {"c"}

\* The effect functions of the harness (user code handed to effect()).
TopEffects == {"cond", "guard"}
\* comp: the effect computed(getter) makes; view, upd, rw: effects of the
\* harness that read the computed, call update, and read and write b.
DerivedEffects == {"comp", "view", "upd", "rw"}
\* outer: an effect whose function creates another effect; in1, in2: the
\* effects (runner objects) the first and the second run of outer create.
NestedEffects == {"in1", "in2"}
\* sum: the effect of a second computed, whose getter reads a and b on every
\* run; watch: an effect that reads that computed and a.
TotalEffects == {"sum", "watch"}
NestingEffects == {"outer"} \cup NestedEffects
Effects == TopEffects \cup DerivedEffects \cup NestingEffects \cup TotalEffects
\* A plain callback registered with a.subscribe(cb).
Wrappers == {"w"}
WrapperSignal(w) == "a"

Op(kind, sig, when) == [op |-> kind, sig |-> sig, when |-> when]

\* cond : reads a, then b on one branch and c on the other.
\* guard: reads a, throws when a = 1, calls its own disposer when a = 2, reads b.
Body(e) ==
  CASE e = "cond"  -> << Op("read", "a", "always"), Op("read", "b", "a=0"),
                         Op("read", "c", "a#0") >>
    [] e = "guard" -> << Op("read", "a", "always"), Op("throw", "-", "a=1"),
                         Op("dispose", "-", "a=2"), Op("read", "b", "always") >>
    [] e = "comp"  -> << Op("read", "a", "always"), Op("read", "b", "a#0"),
                         Op("compute", "out", "always") >>
    [] e = "view"  -> << Op("read", "out", "always"), Op("read", "a", "always") >>
    [] e = "upd"   -> << Op("update", "b", "always") >>
    [] e = "rw"    -> << Op("read", "b", "always"), Op("write", "b", "always") >>
    [] e = "sum"   -> << Op("read", "a", "always"), Op("read", "b", "always"),
                         Op("compute", "tot", "always") >>
    [] e = "watch" -> << Op("read", "tot", "always"), Op("read", "a", "always") >>
    \* outer: try { effect(inner) } catch {}, then reads b.
    [] e = "outer" -> << Op("tryEffect", "-", "always"), Op("read", "b", "always") >>
    \* inner: reads a and throws when a = 1.
    [] e \in NestedEffects
                   -> << Op("read", "a", "always"), Op("throw", "-", "a=1") >>

VARIABLES
  val,              \* signal -> _val
  subs,             \* signal -> its subs Set, in insertion order
  effectQueue,      \* _effectQueue, in insertion order
  effectScheduled,  \* _effectScheduled
  microtasks,       \* flush callbacks handed to queueMicrotask, not yet run
  toRun,            \* the rest of the array a running flush iterates
  flushing,         \* a flush callback is executing
  effectStack,      \* _effectStack: frames [eff, pc]
  currentEffect,    \* _currentEffect
  active,           \* effect -> the runner's `active` flag
  estate,           \* effect -> "none" | "init" | "ready" | "failed"
  deps,             \* effect -> runner._deps (the signals whose subs hold it)
  wstate,           \* wrapper -> "none" | "on" | "off"
  phase,            \* "turn": user code runs; "micro": microtask checkpoint
  ops,              \* operations the user code has made so far
  \* ---- observation (history) variables
  lastEvent,        \* the step just taken
  fnCalls,          \* effect -> number of invocations of its function
  seen,             \* effect -> signal -> value read in the latest run
  reads,            \* effect -> signals read in the latest run
  flushBatch,       \* the array the latest flush started with
  invoked,          \* what the latest flush has called so far
  flushThrows,      \* exceptions caught by the latest flush
  turnWrites,       \* signal -> committed writes in the current turn
  cbLog,            \* wrapper -> the values its callback received
  commitLog,        \* wrapper -> the values committed while it was subscribed
  batches,          \* wrapper -> flushes that began after such a commit
  dirty,            \* wrapper -> a commit happened since the last flush began
  lastCommit,       \* signal -> the value of the latest committed write
  disposeCalls,     \* effect -> calls of its disposer
  disposedInRun,    \* effect -> its disposer was called from its own run
  \* ---- the query cache
  clock,            \* Date.now()
  ticks,            \* how often the clock has advanced
  calls,            \* calls user code has made into the query cache
  queries,          \* QueryClient.queries: hash -> Query instance (0: no entry)
  query,            \* instance -> the Query object's fields
  inflight,         \* fetcher calls that have not settled: [q, id, aborted]
  \* ---- observation (history) variables of the query cache
  qEvent,           \* the step just taken
  fetchCalls,       \* instance -> invocations of its fetcher
  lastPlainCall,    \* instance -> the time of its latest non-forced run
  listeners,        \* listener -> the Query it was subscribed to and the calls
                    \* of the unsubscribe function it got back
  \* ---- a mutation made by createMutation
  mutation,         \* its status, data and error signals and currentId
  mflight,          \* calls of fn that have not settled: [id, variables]
  mEvent            \* the step just taken (history)

core == << val, subs, effectQueue, effectScheduled, microtasks, toRun, flushing,
           effectStack, currentEffect, active, estate, deps, wstate >>
ctl  == << phase, ops >>
hist == << lastEvent, fnCalls, seen, reads, flushBatch, invoked, flushThrows,
           turnWrites, cbLog, commitLog, batches, dirty, lastCommit,
           disposeCalls, disposedInRun >>
rvars == << core, ctl, hist >>
qvars == << clock, ticks, calls, queries, query, inflight, qEvent, fetchCalls,
            lastPlainCall >>
svars == << listeners >>
mvars == << mutation, mflight, mEvent >>
vars == << rvars, qvars, svars, mvars >>

\* ------------------------------------------------------------------ helpers
Range(s) == { s[i] : i \in 1..Len(s) }

\* Set.prototype.add: insertion order is kept, a present member is not moved.
SetAdd(s, x) == IF x \in Range(s) THEN s ELSE Append(s, x)

\* Set.prototype.delete.
SetDelete(s, x) == SelectSeq(s, LAMBDA y : y # x)

Event(type, who, sig, v) == [type |-> type, who |-> who, sig |-> sig, v |-> v]

\* options.equals, else (a, b) => a === b.
Equals(s, x, y) == IF s \in CustomEquals /\ x # Undefined /\ y # Undefined
                   THEN (x % 2) = (y % 2)
                   ELSE x = y

\* scheduleEffect with an array for a queue: a function already pending is
\* added again.
scheduleEffectNoDedup(st, fn) ==
  LET q1 == Append(st.queue, fn) IN
  IF st.scheduled
  THEN [st EXCEPT !.queue = q1]
  ELSE [queue |-> q1, scheduled |-> TRUE, micro |-> st.micro + 1]

\* scheduleEffect without its _effectScheduled test: every call queues a flush.
scheduleEffectNoFlagTest(st, fn) ==
  [queue |-> SetAdd(st.queue, fn), scheduled |-> TRUE, micro |-> st.micro + 1]

\* scheduleEffect that sets the flag without handing a flush to
\* queueMicrotask.
scheduleEffectNoMicrotask(st, fn) ==
  [st EXCEPT !.queue = SetAdd(st.queue, fn), !.scheduled = TRUE]

\* scheduleEffect: st is [queue, scheduled, micro].
scheduleEffect(st, fn) ==
  LET q1 == SetAdd(st.queue, fn) IN
  IF st.scheduled
  THEN [st EXCEPT !.queue = q1]
  ELSE [queue |-> q1, scheduled |-> TRUE, micro |-> st.micro + 1]

\* subs.forEach(effectFn => scheduleEffect(effectFn))
RECURSIVE ScheduleAll(_, _)
ScheduleAll(st, fns) ==
  IF fns = << >> THEN st
  ELSE ScheduleAll(scheduleEffect(st, Head(fns)), Tail(fns))

SchedulerState == [queue |-> effectQueue, scheduled |-> effectScheduled,
                   micro |-> microtasks]

\* The setter without its equality test.
SetValueNoEqualityTest(s, v) ==
  LET st == ScheduleAll(SchedulerState, subs[s]) IN
  /\ val' = [val EXCEPT ![s] = v]
  /\ effectQueue' = st.queue
  /\ effectScheduled' = st.scheduled
  /\ microtasks' = st.micro

\* A setter that stores the value and notifies nobody.
SetValueSilent(s, v) ==
  IF Equals(s, val[s], v)
  THEN UNCHANGED << val, effectQueue, effectScheduled, microtasks >>
  ELSE /\ val' = [val EXCEPT ![s] = v]
       /\ UNCHANGED << effectQueue, effectScheduled, microtasks >>

\* The signal's value setter.
SetValue(s, v) ==
  IF Equals(s, val[s], v)
  THEN UNCHANGED << val, effectQueue, effectScheduled, microtasks >>
  ELSE LET st == ScheduleAll(SchedulerState, subs[s]) IN
       /\ val' = [val EXCEPT ![s] = v]
       /\ effectQueue' = st.queue
       /\ effectScheduled' = st.scheduled
       /\ microtasks' = st.micro

\* The history of a setter call.
NoteWrite(s, v) ==
  LET commit == ~Equals(s, val[s], v) IN
  /\ turnWrites' = IF commit /\ phase = "turn"
                   THEN [turnWrites EXCEPT ![s] = @ + 1] ELSE turnWrites
  /\ commitLog' = [w \in Wrappers |->
                    IF commit /\ wstate[w] = "on" /\ WrapperSignal(w) = s
                    THEN Append(commitLog[w], v) ELSE commitLog[w]]
  /\ dirty' = [w \in Wrappers |->
                 dirty[w] \/ (commit /\ wstate[w] = "on" /\ WrapperSignal(w) = s)]
  /\ lastCommit' = IF commit THEN [lastCommit EXCEPT ![s] = v] ELSE lastCommit

\* cleanupEffect: the subs sets after the runner has been deleted from each.
CleanedSubs(e) ==
  [s \in Signals |-> IF s \in deps[e] THEN SetDelete(subs[s], e) ELSE subs[s]]

\* A finally block that resets the pointer instead of restoring it.
StackTopNone(stk) == Null

\* _effectStack[_effectStack.length - 1] || null
StackTop(stk) == IF stk = << >> THEN Null ELSE stk[Len(stk)].eff

Idle == effectStack = << >> /\ ~flushing

\* The getter handed to computed(): () => a.value === 0 ? 0 : b.value, on the
\* values v of the signals.
Getter(v) == IF v["a"] = 0 THEN 0 ELSE v["b"]

\* The updater handed to update(), also used by rw: x => Math.min(x + 1, MaxVal).
Bump(x) == IF x < MaxVal THEN x + 1 ELSE MaxVal

\* The getter handed to the second computed():
\* () => a.value + Math.floor(b.value / 2)
Total(v) == v["a"] + (v["b"] \div 2)

\* The getter of the computed whose output signal is s.
GetterOf(s) == IF s = "out" THEN "first" ELSE "second"
Computed(s, sn) == IF GetterOf(s) = "first" THEN Getter(sn) ELSE Total(sn)

\* A computed that writes the getter's result on its first run only.
WriteValueOnce(o, sn) ==
  IF o.op = "compute"
  THEN IF val[o.sig] = Undefined THEN Computed(o.sig, sn) ELSE val[o.sig]
  ELSE Bump(sn[o.sig])

\* The value a writing statement of an effect function assigns, sn being the
\* values the run has read.
WriteValue(o, sn) ==
  IF o.op = "compute" THEN Computed(o.sig, sn) ELSE Bump(sn[o.sig])


\* ------------------------------------------------------------- query cache
\* QueryClient.defaultOptions.staleTime
DefaultStaleTime == 60000

\* Date.now() when the page loads, and the steps by which it advances.
StartTimes == {1000000}
Durations == {30000}

\* Cache keys: strings, and arrays of numbers (a non-string key).
Key(kind, text, items) == [kind |-> kind, text |-> text, items |-> items]
Keys == { Key("str", "k", << >>), Key("str", "[1]", << >>), Key("arr", "", << 1 >>) }

\* JSON.stringify of an array of numbers.
RECURSIVE JoinItems(_)
JoinItems(items) ==
  IF items = << >> THEN ""
  ELSE IF Len(items) = 1 THEN ToString(items[1])
  ELSE ToString(items[1]) \o "," \o JoinItems(Tail(items))
Stringify(items) == "[" \o JoinItems(items) \o "]"

\* hashKey: a string is its own hash, anything else is serialized.
hashKey(key) == IF key.kind = "str" THEN key.text ELSE Stringify(key.items)
Hashes == { hashKey(k) : k \in Keys }

\* User code passes a new function object with every call: the fetcher handed
\* over by the n-th call into the cache.
Fetcher(n) == n
\* What the fetcher resolves with in attempt id (every attempt gets a result of
\* its own), and what a fetcher rejects with.
FetchValue(id) == id
FetchErrors == {"Error", "AbortError"}

Options(staleTime, initialData, initialFetch, keepPreviousData, forceRefetch) ==
  [staleTime |-> staleTime, initialData |-> initialData,
   initialFetch |-> initialFetch, keepPreviousData |-> keepPreviousData,
   forceRefetch |-> forceRefetch]
\* The option objects user code passes: none, initialData without an initial
\* fetch and with a staleTime of its own, keepPreviousData, forceRefetch.
OptionSets ==
  { Options(Undefined, Undefined, TRUE, FALSE, FALSE),
    Options(30000, 0, FALSE, FALSE, FALSE),
    Options(Undefined, Undefined, TRUE, TRUE, FALSE),
    Options(Undefined, Undefined, TRUE, FALSE, TRUE) }

\* Query instances: every call into the cache can construct one.
QIds == 1..MaxCalls
NoQuery == 0

\* A slot no Query has been constructed in yet.
Unmade ==
  [made |-> FALSE, key |-> Key("str", "", << >>), hash |-> "", fetcher |-> 0,
   options |-> Options(Undefined, Undefined, TRUE, FALSE, FALSE),
   data |-> Undefined, error |-> Null, status |-> "idle", isFetching |-> FALSE,
   lastUpdated |-> 0, requestId |-> 0, abortController |-> 0, subCount |-> 0]

\* new Query(client, key, fetcher, options)
NewQuery(key, fetcher, options) ==
  [made |-> TRUE, key |-> key, hash |-> hashKey(key), fetcher |-> fetcher,
   options |-> options,
   data |-> options.initialData, error |-> Null,
   status |-> IF options.initialData # Undefined THEN "success" ELSE "idle",
   isFetching |-> FALSE, lastUpdated |-> 0, requestId |-> 0,
   abortController |-> 0, subCount |-> 0]

\* get staleTime(): options.staleTime ?? client.defaultOptions.staleTime
staleTime(r) ==
  IF r.options.staleTime # Undefined THEN r.options.staleTime ELSE DefaultStaleTime

\* isStale with >= for >.
isStaleAtLimit(r) == clock - r.lastUpdated >= staleTime(r)

\* Query.isStale
isStale(r) == clock - r.lastUpdated > staleTime(r)

\* _run's allowStale
allowStale(r, force) ==
  ~force /\ ~isStale(r) /\ r.status = "success" /\ ~r.options.forceRefetch

\* A _run that clears the data of the previous attempt when it starts one.
StartedClearsData(r) ==
  LET isBackground == r.status = "success" IN
  [r EXCEPT !.requestId = @ + 1,
            !.abortController = r.requestId + 1,
            !.isFetching = TRUE,
            !.data = Undefined,
            !.status = IF ~isBackground \/ ~r.options.keepPreviousData
                       THEN "loading" ELSE @]

\* _run without the keepPreviousData test: every new attempt shows as loading.
StartedAlwaysLoading(r) ==
  [r EXCEPT !.requestId = @ + 1,
            !.abortController = r.requestId + 1,
            !.isFetching = TRUE,
            !.status = "loading"]

\* _run from `const currentId = ++this.requestId` to the call of the fetcher:
\* the Query's fields afterwards.
Started(r) ==
  LET isBackground == r.status = "success" IN
  [r EXCEPT !.requestId = @ + 1,
            !.abortController = r.requestId + 1,
            !.isFetching = TRUE,
            !.status = IF ~isBackground \/ ~r.options.keepPreviousData
                       THEN "loading" ELSE @]

\* The fetcher calls in flight after _run has aborted the previous controller
\* and called the fetcher again.  `before` remembers data, error and status as
\* they were when _run was entered.
InflightAfterStart(q, r) ==
  { IF a.q = q /\ a.id = r.abortController THEN [a EXCEPT !.aborted = TRUE] ELSE a
      : a \in inflight }
  \cup { [q |-> q, id |-> r.requestId + 1, aborted |-> FALSE,
           before |-> << r.data, r.error, r.status >>] }

\* arg: for a run the time of the previous non-forced run, for a createQuery
\* call the key and options it was given, for a settled fetcher call the
\* callbacks of options that were invoked, in order.
QEvent(type, q, id, force, res, v, arg) ==
  [type |-> type, q |-> q, id |-> id, force |-> force, res |-> res, v |-> v,
   arg |-> arg]

\* The test _run makes on both branches without its negation: a superseded
\* attempt is taken for the current one.
NeverSuperseded(r, id) == FALSE

\* currentId !== this.requestId
Superseded(r, id) == id # r.requestId

\* _run(force), up to its first await.
Run(q, force) ==
  LET r == query[q] IN
  IF allowStale(r, force)
  THEN /\ qEvent' = QEvent("run", q, r.requestId, force, "cached", r.data, lastPlainCall[q])
       /\ UNCHANGED << query, inflight, fetchCalls >>
  ELSE /\ query' = [query EXCEPT ![q] = Started(r)]
       /\ inflight' = InflightAfterStart(q, r)
       /\ fetchCalls' = [fetchCalls EXCEPT ![q] = @ + 1]
       /\ qEvent' = QEvent("run", q, r.requestId + 1, force, "started", r.data,
                          lastPlainCall[q])

\* query.refetch(force) called by user code.
Refetch(q, force) ==
  /\ UNCHANGED << rvars, svars, mvars >>
  /\ query[q].made
  /\ calls < MaxCalls
  /\ calls' = calls + 1
  /\ Run(q, force)
  /\ lastPlainCall' = IF force THEN lastPlainCall
                      ELSE [lastPlainCall EXCEPT ![q] = clock]
  /\ UNCHANGED << clock, ticks, queries >>

\* createQuery that always constructs a Query and overwrites the map entry.
ExistingNever(hash) == NoQuery

\* this.queries.get(hash)
Existing(hash) == queries[hash]

\* QueryClient.createQuery(key, fetcher, options), with a fetcher of the call's own.
CreateQuery(key, options) ==
  /\ UNCHANGED << rvars, svars, mvars >>
  /\ calls < MaxCalls
  /\ calls' = calls + 1
  /\ LET hash == hashKey(key)
         fetcher == Fetcher(calls + 1)
         existing == Existing(hash)
     IN IF existing # NoQuery
        THEN /\ qEvent' = QEvent("create", existing, 0, FALSE, "existing", hash,
                               [key |-> key, options |-> options])
             /\ UNCHANGED << queries, query, inflight, fetchCalls >>
        ELSE /\ \E q \in QIds : ~query[q].made
             /\ LET q == CHOOSE i \in QIds :
                           ~query[i].made /\ \A j \in QIds : ~query[j].made => i <= j
                    r == NewQuery(key, fetcher, options)
                IN /\ queries' = [queries EXCEPT ![hash] = q]
                   /\ IF options.initialFetch
                      THEN /\ query' = [query EXCEPT ![q] = Started(r)]
                           /\ inflight' = InflightAfterStart(q, r)
                           /\ fetchCalls' = [fetchCalls EXCEPT ![q] = @ + 1]
                      ELSE /\ query' = [query EXCEPT ![q] = r]
                           /\ UNCHANGED << inflight, fetchCalls >>
                   /\ qEvent' = QEvent("create", q, 0, FALSE, "new", hash,
                                     [key |-> key, options |-> options])
  /\ UNCHANGED << clock, ticks, lastPlainCall >>

\* invalidateQueries with every Query taken for a match.
MatchesAll(key, r) == TRUE

\* The predicate invalidateQueries builds from a key:
\* q => hashKey(predicateOrKey) === q.hash
Matches(key, r) == hashKey(key) = r.hash

\* The Queries in the map, as this.queries.forEach visits them.
InMap == { queries[h] : h \in { g \in Hashes : queries[g] # NoQuery } }

\* client.invalidateQueries(key): q.refetch(true) for every Query in the map
\* that the predicate selects.  A forced run never takes the cached path.
InvalidateQueries(key) ==
  /\ UNCHANGED << rvars, svars, mvars >>
  /\ calls < MaxCalls
  /\ calls' = calls + 1
  /\ LET hit == { q \in InMap : Matches(key, query[q]) }
     IN /\ query' = [q \in QIds |-> IF q \in hit THEN Started(query[q]) ELSE query[q]]
        /\ inflight' =
             { IF a.q \in hit /\ a.id = query[a.q].abortController
               THEN [a EXCEPT !.aborted = TRUE] ELSE a : a \in inflight }
             \cup { [q |-> q, id |-> query[q].requestId + 1, aborted |-> FALSE,
                     before |-> << query[q].data, query[q].error, query[q].status >>]
                    : q \in hit }
        /\ fetchCalls' = [q \in QIds |-> IF q \in hit THEN fetchCalls[q] + 1
                                          ELSE fetchCalls[q]]
        /\ qEvent' = QEvent("invalidate", NoQuery, 0, TRUE,
                            IF hit = {} THEN "none" ELSE "started", hashKey(key), hit)
  /\ UNCHANGED << clock, ticks, queries, lastPlainCall >>

\* A _run that calls onSettled in a finally block, for every attempt.
CallbacksSettledAlways(res) ==
  CASE res = "committed" -> << "onSuccess", "onSettled" >>
    [] res = "threw"     -> << "onError", "onSettled" >>
    [] OTHER             -> << "onSettled" >>

\* The callbacks of options that _run calls, in order, by the way the attempt
\* ends: committed (the promise resolves with the selected result), threw (it
\* rejects with the error), dropped or ignored (it resolves with
\* this.data.value).
Callbacks(res) ==
  CASE res = "committed" -> << "onSuccess", "onSettled" >>
    [] res = "threw"     -> << "onError", "onSettled" >>
    [] OTHER             -> << >>

\* The awaited fetcher call of attempt a resolves.
Resolve(a) ==
  /\ UNCHANGED << rvars, svars, mvars >>
  /\ a \in inflight
  /\ inflight' = inflight \ {a}
  /\ LET r == query[a.q]
         raw == FetchValue(a.id)
     IN
     IF Superseded(r, a.id)
     THEN /\ qEvent' = QEvent("resolve", a.q, a.id, FALSE, "dropped", raw,
                           Callbacks("dropped"))
          /\ UNCHANGED query
     ELSE /\ query' = [query EXCEPT ![a.q] =
                         [r EXCEPT !.data = raw, !.status = "success",
                                   !.error = Null, !.lastUpdated = clock,
                                   !.isFetching = FALSE]]
          /\ qEvent' = QEvent("resolve", a.q, a.id, FALSE, "committed", raw,
                           Callbacks("committed"))
  /\ UNCHANGED << clock, ticks, calls, queries, fetchCalls, lastPlainCall >>

\* A catch branch that also drops the data of the last success.
FailedDropsData(r, e) ==
  [r EXCEPT !.data = Undefined, !.error = e, !.status = "error",
            !.isFetching = FALSE]

\* The writes of _run's catch branch for a failure of the current attempt.
Failed(r, e) ==
  [r EXCEPT !.error = e, !.status = "error", !.isFetching = FALSE]

\* The awaited fetcher call of attempt a rejects with e.
Reject(a, e) ==
  /\ UNCHANGED << rvars, svars, mvars >>
  /\ a \in inflight
  /\ inflight' = inflight \ {a}
  /\ LET r == query[a.q] IN
     IF r.abortController # 0 /\ e = "AbortError"
     THEN /\ qEvent' = QEvent("reject", a.q, a.id, FALSE, "ignored", e,
                           Callbacks("ignored"))
          /\ UNCHANGED query
     ELSE IF Superseded(r, a.id)
     THEN /\ qEvent' = QEvent("reject", a.q, a.id, FALSE, "dropped", e,
                           Callbacks("dropped"))
          /\ UNCHANGED query
     ELSE /\ query' = [query EXCEPT ![a.q] = Failed(r, e)]
          /\ qEvent' = QEvent("reject", a.q, a.id, FALSE, "threw", e,
                           Callbacks("threw"))
  /\ UNCHANGED << clock, ticks, calls, queries, fetchCalls, lastPlainCall >>

\* The callback of options that throws when it is called, if any, and what
\* it throws.
Throwers == {"none", "onSuccess", "onError", "onSettled"}
CallbackError == "CallbackError"

\* The awaited fetcher call of attempt a resolves and the callback bad throws.
\* onSuccess and onSettled are called inside _run's try block, after the
\* writes of the success: what they throw is taken by _run's own catch branch,
\* which, the attempt still being the current one, writes error and status
\* and calls onError and onSettled before it rethrows.
ResolveThrowing(a, bad) ==
  IF bad \notin {"onSuccess", "onSettled"} \/ Superseded(query[a.q], a.id)
  THEN Resolve(a)
  ELSE
  /\ UNCHANGED << rvars, svars, mvars >>
  /\ a \in inflight
  /\ inflight' = inflight \ {a}
  /\ LET r == query[a.q]
         raw == FetchValue(a.id)
         done == [r EXCEPT !.data = raw, !.status = "success", !.error = Null,
                           !.lastUpdated = clock, !.isFetching = FALSE]
         tried == IF bad = "onSuccess" THEN << "onSuccess" >>
                  ELSE << "onSuccess", "onSettled" >>
     IN /\ query' = [query EXCEPT ![a.q] = Failed(done, CallbackError)]
        /\ qEvent' = QEvent("resolve", a.q, a.id, FALSE, "threw", raw,
                           tried \o << "onError", "onSettled" >>)
  /\ UNCHANGED << clock, ticks, calls, queries, fetchCalls, lastPlainCall >>

\* The awaited fetcher call of attempt a rejects with e and the callback bad
\* throws.  onError and onSettled are called in the catch branch: what onError
\* throws leaves _run before onSettled is called.
RejectThrowing(a, e, bad) ==
  IF bad # "onError" \/ Superseded(query[a.q], a.id)
     \/ (query[a.q].abortController # 0 /\ e = "AbortError")
  THEN Reject(a, e)
  ELSE
  /\ UNCHANGED << rvars, svars, mvars >>
  /\ a \in inflight
  /\ inflight' = inflight \ {a}
  /\ query' = [query EXCEPT ![a.q] = Failed(query[a.q], e)]
  /\ qEvent' = QEvent("reject", a.q, a.id, FALSE, "threw", e, << "onError" >>)
  /\ UNCHANGED << clock, ticks, calls, queries, fetchCalls, lastPlainCall >>

\* Time passes.
Tick(d) ==
  /\ UNCHANGED << rvars, svars, mvars >>
  /\ ticks < MaxTicks
  /\ clock' = clock + d
  /\ ticks' = ticks + 1
  /\ qEvent' = QEvent("tick", 0, 0, FALSE, "-", d, 0)
  /\ UNCHANGED << calls, queries, query, inflight, fetchCalls, lastPlainCall >>

\* ------------------------------------------- subscribers, sweep, window events
\* QueryClient.defaultOptions.cacheTime: 5 * 60_000
DefaultCacheTime == 300000

\* The keys of the entries the sweep and the window events are tried on.
CacheKeys == { Key("str", "k", << >>), Key("str", "[1]", << >>) }

\* The functions user code passes to Query.subscribe.
Listeners == 1..MaxListeners

\* Option objects that also set cacheTime or the window-event switches; an
\* option that is not given is not a property of the object.
Plain(stale) == Options(stale, Undefined, TRUE, FALSE, FALSE)
SweepOptionSets ==
  { Plain(Undefined),
    [staleTime |-> Undefined, initialData |-> Undefined, initialFetch |-> TRUE,
     keepPreviousData |-> FALSE, forceRefetch |-> FALSE, cacheTime |-> 30000] }
WindowOptionSets ==
  { Plain(30000),
    [staleTime |-> 30000, initialData |-> Undefined, initialFetch |-> TRUE,
     keepPreviousData |-> FALSE, forceRefetch |-> FALSE,
     refetchOnWindowFocus |-> FALSE, refetchOnReconnect |-> FALSE] }

\* options[name] ?? fallback
OptionOr(o, name, fallback) == IF name \in DOMAIN o THEN o[name] ELSE fallback

\* Query.subscribe(listener): the four signal subscriptions are made and
\* subCount is incremented.
Subscribe(l, q) ==
  /\ UNCHANGED << rvars, mvars >>
  /\ listeners[l].q = NoQuery
  /\ query[q].made
  /\ listeners' = [listeners EXCEPT ![l] = [q |-> q, unsubscribed |-> 0]]
  /\ query' = [query EXCEPT ![q].subCount = @ + 1]
  /\ qEvent' = QEvent("subscribe", q, 0, FALSE, "-", l, 0)
  /\ UNCHANGED << clock, ticks, calls, queries, inflight, fetchCalls,
                  lastPlainCall >>

\* The function Query.subscribe returned, called a first or a further time:
\* u1..u4 delete the wrappers (deleting twice changes nothing) and subCount
\* becomes Math.max(0, subCount - 1).
Unsubscribe(l) ==
  /\ UNCHANGED << rvars, mvars >>
  /\ listeners[l].q # NoQuery
  /\ listeners[l].unsubscribed < MaxUnsubscribe
  /\ listeners' = [listeners EXCEPT ![l].unsubscribed = @ + 1]
  /\ query' = [query EXCEPT ![listeners[l].q].subCount =
                                IF @ > 0 THEN @ - 1 ELSE 0]
  /\ qEvent' = QEvent("unsubscribe", listeners[l].q, 0, FALSE, "-", l, 0)
  /\ UNCHANGED << clock, ticks, calls, queries, inflight, fetchCalls,
                  lastPlainCall >>

\* removeUnused's test with the subscriber count left out.
UnusedWhateverSubscribers(r) ==
  clock - r.lastUpdated > OptionOr(r.options, "cacheTime", DefaultCacheTime)

\* removeUnused's test of an entry:
\* q.subCount === 0 && nowMs - q.lastUpdated > ct
Unused(r) ==
  /\ r.subCount = 0
  /\ clock - r.lastUpdated > OptionOr(r.options, "cacheTime", DefaultCacheTime)

\* client.removeUnused()
RemoveUnused ==
  /\ UNCHANGED << rvars, svars, mvars >>
  /\ calls < MaxCalls
  /\ calls' = calls + 1
  /\ LET gone == { h \in Hashes : queries[h] # NoQuery /\ Unused(query[queries[h]]) }
     IN /\ queries' = [h \in Hashes |-> IF h \in gone THEN NoQuery ELSE queries[h]]
        /\ qEvent' = QEvent("removeUnused", NoQuery, 0, FALSE, "-", 0, gone)
  /\ UNCHANGED << clock, ticks, query, inflight, fetchCalls, lastPlainCall >>

\* q.refetch(force) for each Query of hit, all of which start an attempt.
StartEach(hit) ==
  /\ query' = [q \in QIds |-> IF q \in hit THEN Started(query[q]) ELSE query[q]]
  /\ inflight' =
       { IF a.q \in hit /\ a.id = query[a.q].abortController
         THEN [a EXCEPT !.aborted = TRUE] ELSE a : a \in inflight }
       \cup { [q |-> q, id |-> query[q].requestId + 1, aborted |-> FALSE,
               before |-> << query[q].data, query[q].error, query[q].status >>]
              : q \in hit }
  /\ fetchCalls' = [q \in QIds |-> IF q \in hit THEN fetchCalls[q] + 1
                                    ELSE fetchCalls[q]]

\* The focus listener's test of a Query.
FocusShould(r) ==
  /\ OptionOr(r.options, "refetchOnWindowFocus", TRUE)
  /\ r.subCount > 0
  /\ r.status = "success"
  /\ isStale(r)

\* The window's focus event: q.refetch() for the Queries that pass the test;
\* being stale, none of them takes the cached path of _run.
Focus ==
  /\ UNCHANGED << rvars, svars, mvars >>
  /\ calls < MaxCalls
  /\ calls' = calls + 1
  /\ LET hit == { q \in InMap : FocusShould(query[q]) }
         run == { q \in hit : ~allowStale(query[q], FALSE) }
     IN /\ StartEach(run)
        /\ lastPlainCall' = [q \in QIds |-> IF q \in hit THEN clock
                                             ELSE lastPlainCall[q]]
        /\ qEvent' = QEvent("focus", NoQuery, 0, FALSE, "-", 0, hit)
  /\ UNCHANGED << clock, ticks, queries >>

\* The online listener's test with the status test left out.
OnlineShouldWhateverStatus(r) ==
  /\ OptionOr(r.options, "refetchOnReconnect", TRUE)
  /\ r.subCount > 0

\* The online listener's test of a Query.
OnlineShould(r) ==
  /\ OptionOr(r.options, "refetchOnReconnect", TRUE)
  /\ r.subCount > 0
  /\ r.status = "error"

\* The window's online event: q.refetch(true) for the Queries that pass.
Online ==
  /\ UNCHANGED << rvars, svars, mvars >>
  /\ calls < MaxCalls
  /\ calls' = calls + 1
  /\ LET hit == { q \in InMap : OnlineShould(query[q]) }
     IN /\ StartEach(hit)
        /\ qEvent' = QEvent("online", NoQuery, 0, TRUE, "-", 0, hit)
  /\ UNCHANGED << clock, ticks, queries, lastPlainCall >>

\* ---------------------------------------------------------------- mutation
\* createMutation(fn, options) without initialData.
NewMutation == [status |-> "idle", data |-> Undefined, error |-> Null,
                currentId |-> 0]

\* What fn resolves with in call id, and what it rejects with.
MutationResult(id) == id
MutationErrors == {"Error"}

\* v: the variables of a mutate call, the value fn resolved with or the error
\* it rejected with; res: how the promise of the mutate call ends; cbs: the
\* callbacks of options that were invoked, in order.
MEvent(type, id, res, v, cbs) ==
  [type |-> type, id |-> id, res |-> res, v |-> v, cbs |-> cbs]

\* mutate(variables), up to its await.
Mutate(x) ==
  /\ UNCHANGED << rvars, qvars, svars >>
  /\ mutation.currentId < MaxCalls
  /\ mutation' = [mutation EXCEPT !.currentId = @ + 1, !.status = "loading",
                                   !.error = Null]
  /\ mflight' = mflight \cup { [id |-> mutation.currentId + 1, variables |-> x] }
  /\ mEvent' = MEvent("mutate", mutation.currentId + 1, "started", x, << >>)

\* mutate without its test of the call's number.
OvertakenNever(id) == FALSE

\* id !== currentId
Overtaken(id) == id # mutation.currentId

\* The awaited call of fn resolves.
MutateResolve(a) ==
  /\ UNCHANGED << rvars, qvars, svars >>
  /\ a \in mflight
  /\ mflight' = mflight \ {a}
  /\ LET res == MutationResult(a.id) IN
     IF Overtaken(a.id)
     THEN /\ mEvent' = MEvent("resolve", a.id, "resolved with data", res, << >>)
          /\ UNCHANGED mutation
     ELSE /\ mutation' = [mutation EXCEPT !.data = res, !.status = "success"]
          /\ mEvent' = MEvent("resolve", a.id, "resolved", res,
                              << "onSuccess", "onSettled" >>)

\* The awaited call of fn rejects with e.
MutateReject(a, e) ==
  /\ UNCHANGED << rvars, qvars, svars >>
  /\ a \in mflight
  /\ mflight' = mflight \ {a}
  /\ IF Overtaken(a.id)
     THEN /\ mEvent' = MEvent("reject", a.id, "resolved with data", e, << >>)
          /\ UNCHANGED mutation
     ELSE /\ mutation' = [mutation EXCEPT !.error = e, !.status = "error"]
          /\ mEvent' = MEvent("reject", a.id, "rejected", e,
                              << "onError", "onSettled" >>)

\* ---------------------------------------------------------------------- Init
Init ==
  /\ val = [s \in Signals |-> IF s \in Outputs THEN Undefined ELSE 0]
  /\ subs = [s \in Signals |-> << >>]
  /\ effectQueue = << >>
  /\ effectScheduled = FALSE
  /\ microtasks = 0
  /\ toRun = << >>
  /\ flushing = FALSE
  /\ effectStack = << >>
  /\ currentEffect = Null
  /\ active = [e \in Effects |-> TRUE]
  /\ estate = [e \in Effects |-> "none"]
  /\ deps = [e \in Effects |-> {}]
  /\ wstate = [w \in Wrappers |-> "none"]
  /\ phase = "turn"
  /\ ops = 0
  /\ lastEvent = Event("init", "-", "-", 0)
  /\ fnCalls = [e \in Effects |-> 0]
  /\ seen = [e \in Effects |-> [s \in Signals |-> Undefined]]
  /\ reads = [e \in Effects |-> {}]
  /\ flushBatch = << >>
  /\ invoked = << >>
  /\ flushThrows = 0
  /\ turnWrites = [s \in Signals |-> 0]
  /\ cbLog = [w \in Wrappers |-> << >>]
  /\ commitLog = [w \in Wrappers |-> << >>]
  /\ batches = [w \in Wrappers |-> 0]
  /\ dirty = [w \in Wrappers |-> FALSE]
  /\ lastCommit = [s \in Signals |-> IF s \in Outputs THEN Undefined ELSE 0]
  /\ disposeCalls = [e \in Effects |-> 0]
  /\ disposedInRun = [e \in Effects |-> FALSE]
  /\ clock \in StartTimes
  /\ ticks = 0
  /\ calls = 0
  /\ queries = [h \in Hashes |-> NoQuery]
  /\ query = [q \in QIds |-> Unmade]
  /\ inflight = {}
  /\ qEvent = QEvent("init", 0, 0, FALSE, "-", 0, 0)
  /\ fetchCalls = [q \in QIds |-> 0]
  /\ lastPlainCall = [q \in QIds |-> Undefined]
  /\ listeners = [l \in Listeners |-> [q |-> NoQuery, unsubscribed |-> 0]]
  /\ mutation = NewMutation
  /\ mflight = {}
  /\ mEvent = MEvent("init", 0, "-", 0, << >>)


\* ------------------------------------------------------- the user code's turn
UserTurn == phase = "turn" /\ Idle /\ ops < MaxOps

\* runner() without its cleanupEffect call.
RunnerEnterNoCleanup(e) ==
  /\ UNCHANGED << subs, deps >>
  /\ effectStack' = Append(effectStack, [eff |-> e, pc |-> 1])
  /\ currentEffect' = e
  /\ fnCalls' = [fnCalls EXCEPT ![e] = @ + 1]
  /\ seen' = [seen EXCEPT ![e] = [s \in Signals |-> Undefined]]
  /\ reads' = [reads EXCEPT ![e] = {}]

\* runner(), from its `active` test passed up to the call of fn.
RunnerEnter(e) ==
  /\ subs' = CleanedSubs(e)
  /\ deps' = [deps EXCEPT ![e] = {}]
  /\ effectStack' = Append(effectStack, [eff |-> e, pc |-> 1])
  /\ currentEffect' = e
  /\ fnCalls' = [fnCalls EXCEPT ![e] = @ + 1]
  /\ seen' = [seen EXCEPT ![e] = [s \in Signals |-> Undefined]]
  /\ reads' = [reads EXCEPT ![e] = {}]

\* sig.value = v in user code.
EnvWrite(s, v) ==
  /\ UNCHANGED << qvars, svars, mvars >>
  /\ UserTurn
  /\ SetValue(s, v)
  /\ NoteWrite(s, v)
  /\ ops' = ops + 1
  /\ lastEvent' = Event("write", "-", s, v)
  /\ UNCHANGED << subs, toRun, flushing, effectStack, currentEffect, active,
                  estate, deps, wstate, phase, fnCalls, seen, reads, flushBatch,
                  invoked, flushThrows, cbLog, batches, disposeCalls,
                  disposedInRun >>

\* effect(fn) in user code: the runner is made and called at once.
EnvCreate(e) ==
  /\ UNCHANGED << qvars, svars, mvars >>
  /\ UserTurn
  /\ estate[e] = "none"
  /\ estate' = [estate EXCEPT ![e] = "init"]
  /\ RunnerEnter(e)
  /\ ops' = ops + 1
  /\ lastEvent' = Event("create", e, "-", 0)
  /\ UNCHANGED << val, effectQueue, effectScheduled, microtasks, toRun, flushing,
                  active, wstate, phase, flushBatch, invoked, flushThrows,
                  turnWrites, cbLog, commitLog, batches, dirty, lastCommit, disposeCalls,
                  disposedInRun >>

\* dispose(): active = false; cleanupEffect(runner).
Dispose(e) ==
  /\ active' = [active EXCEPT ![e] = FALSE]
  /\ subs' = CleanedSubs(e)
  /\ deps' = [deps EXCEPT ![e] = {}]
  /\ disposeCalls' = [disposeCalls EXCEPT ![e] = @ + 1]

\* The disposer called from user code, a first or a further time.
EnvDispose(e) ==
  /\ UNCHANGED << qvars, svars, mvars >>
  /\ UserTurn
  /\ estate[e] = "ready"
  /\ disposeCalls[e] < MaxDispose
  /\ Dispose(e)
  /\ ops' = ops + 1
  /\ lastEvent' = Event("dispose", e, "-", 0)
  /\ UNCHANGED << val, effectQueue, effectScheduled, microtasks, toRun, flushing,
                  effectStack, currentEffect, estate, wstate, phase, fnCalls,
                  seen, reads, flushBatch, invoked, flushThrows, turnWrites,
                  cbLog, commitLog, batches, dirty, lastCommit, disposedInRun >>

\* sig.subscribe(cb): the wrapper joins the signal's subs.
EnvSubscribe(w) ==
  /\ UNCHANGED << qvars, svars, mvars >>
  /\ UserTurn
  /\ wstate[w] = "none"
  /\ wstate' = [wstate EXCEPT ![w] = "on"]
  /\ subs' = [subs EXCEPT ![WrapperSignal(w)] = SetAdd(@, w)]
  /\ ops' = ops + 1
  /\ lastEvent' = Event("subscribe", w, WrapperSignal(w), 0)
  /\ UNCHANGED << val, effectQueue, effectScheduled, microtasks, toRun, flushing,
                  effectStack, currentEffect, active, estate, deps, phase,
                  fnCalls, seen, reads, flushBatch, invoked, flushThrows,
                  turnWrites, cbLog, commitLog, batches, dirty, lastCommit, disposeCalls,
                  disposedInRun >>

\* The function subscribe returned: subs.delete(wrapper).
EnvUnsubscribe(w) ==
  /\ UNCHANGED << qvars, svars, mvars >>
  /\ UserTurn
  /\ wstate[w] = "on"
  /\ wstate' = [wstate EXCEPT ![w] = "off"]
  /\ subs' = [subs EXCEPT ![WrapperSignal(w)] = SetDelete(@, w)]
  /\ ops' = ops + 1
  /\ lastEvent' = Event("unsubscribe", w, WrapperSignal(w), 0)
  /\ UNCHANGED << val, effectQueue, effectScheduled, microtasks, toRun, flushing,
                  effectStack, currentEffect, active, estate, deps, phase,
                  fnCalls, seen, reads, flushBatch, invoked, flushThrows,
                  turnWrites, cbLog, commitLog, batches, dirty, lastCommit, disposeCalls,
                  disposedInRun >>

\* The synchronous turn ends: the microtask checkpoint follows.
EndTurn ==
  /\ UNCHANGED << qvars, svars, mvars >>
  /\ phase = "turn"
  /\ Idle
  /\ phase' = "micro"
  /\ lastEvent' = Event("endTurn", "-", "-", 0)
  /\ UNCHANGED << core, ops, fnCalls, seen, reads, flushBatch, invoked,
                  flushThrows, turnWrites, cbLog, commitLog, batches, dirty, lastCommit,
                  disposeCalls, disposedInRun >>

\* The microtask queue is empty: the next turn of user code starts.
NextTurn ==
  /\ UNCHANGED << qvars, svars, mvars >>
  /\ phase = "micro"
  /\ Idle
  /\ microtasks = 0
  /\ ops < MaxOps
  /\ phase' = "turn"
  /\ turnWrites' = [s \in Signals |-> 0]
  /\ lastEvent' = Event("nextTurn", "-", "-", 0)
  /\ UNCHANGED << core, ops, fnCalls, seen, reads, flushBatch, invoked,
                  flushThrows, cbLog, commitLog, batches, dirty, lastCommit, disposeCalls,
                  disposedInRun >>


\* ------------------------------------------------------------ an effect's run
Top == effectStack[Len(effectStack)]
TopOp == Body(Top.eff)[Top.pc]
Running == effectStack # << >>
AtOp == Running /\ Top.pc <= Len(Body(Top.eff))

\* The branch conditions of the effect functions, on the values read so far.
When(w, sn) ==
  CASE w = "always" -> TRUE
    [] w = "a=0"    -> sn["a"] = 0
    [] w = "a#0"    -> sn["a"] # 0
    [] w = "a=1"    -> sn["a"] = 1
    [] w = "a=2"    -> sn["a"] = 2

Advanced == [effectStack EXCEPT ![Len(effectStack)].pc = @ + 1]

\* A statement on a branch the function does not take.
SkipOp ==
  /\ UNCHANGED << qvars, svars, mvars >>
  /\ AtOp
  /\ ~When(TopOp.when, seen[Top.eff])
  /\ effectStack' = Advanced
  /\ lastEvent' = Event("branch", Top.eff, "-", 0)
  /\ UNCHANGED << val, subs, effectQueue, effectScheduled, microtasks, toRun,
                  flushing, currentEffect, active, estate, deps, wstate, ctl,
                  fnCalls, seen, reads, flushBatch, invoked, flushThrows,
                  turnWrites, cbLog, commitLog, batches, dirty, lastCommit, disposeCalls,
                  disposedInRun >>

\* The signal's value getter, called by the running function.
ReadOp ==
  /\ UNCHANGED << qvars, svars, mvars >>
  /\ AtOp
  /\ When(TopOp.when, seen[Top.eff])
  /\ TopOp.op = "read"
  /\ LET s == TopOp.sig
         e == Top.eff
     IN /\ IF currentEffect # Null
           THEN /\ subs' = [subs EXCEPT ![s] = SetAdd(@, currentEffect)]
                /\ deps' = [deps EXCEPT ![currentEffect] = @ \cup {s}]
           ELSE UNCHANGED << subs, deps >>
        /\ seen' = [seen EXCEPT ![e][s] = val[s]]
        /\ reads' = [reads EXCEPT ![e] = @ \cup {s}]
        /\ lastEvent' = Event("read", e, s, val[s])
  /\ effectStack' = Advanced
  /\ UNCHANGED << val, effectQueue, effectScheduled, microtasks, toRun, flushing,
                  currentEffect, active, estate, wstate, ctl, fnCalls,
                  flushBatch, invoked, flushThrows, turnWrites, cbLog,
                  commitLog, batches, dirty, lastCommit, disposeCalls, disposedInRun >>

\* The running function calls its own disposer (it has one once effect() has
\* returned, so not during the run effect() itself makes).
DisposeOp ==
  /\ UNCHANGED << qvars, svars, mvars >>
  /\ AtOp
  /\ When(TopOp.when, seen[Top.eff])
  /\ TopOp.op = "dispose"
  /\ LET e == Top.eff
     IN IF estate[e] = "ready" /\ disposeCalls[e] < MaxDispose
        THEN /\ Dispose(e)
             /\ disposedInRun' = [disposedInRun EXCEPT ![e] = TRUE]
             /\ lastEvent' = Event("disposeSelf", e, "-", 0)
        ELSE /\ UNCHANGED << active, subs, deps, disposeCalls, disposedInRun >>
             /\ lastEvent' = Event("noDisposer", e, "-", 0)
  /\ effectStack' = Advanced
  /\ UNCHANGED << val, effectQueue, effectScheduled, microtasks, toRun, flushing,
                  currentEffect, estate, wstate, ctl, fnCalls, seen, reads,
                  flushBatch, invoked, flushThrows, turnWrites, cbLog,
                  commitLog, batches, dirty, lastCommit >>

\* sig.value = v made by the running function: out.value = getter() in the
\* computed's effect, b.value = bump(b.value) in rw.
WriteOp ==
  /\ UNCHANGED << qvars, svars, mvars >>
  /\ AtOp
  /\ When(TopOp.when, seen[Top.eff])
  /\ TopOp.op \in {"compute", "write"}
  /\ LET s == TopOp.sig
         v == WriteValue(TopOp, seen[Top.eff])
     IN /\ SetValue(s, v)
        /\ NoteWrite(s, v)
        /\ lastEvent' = Event("effectWrite", Top.eff, s, v)
  /\ effectStack' = Advanced
  /\ UNCHANGED << subs, toRun, flushing, currentEffect, active, estate, deps,
                  wstate, ctl, fnCalls, seen, reads, flushBatch, invoked,
                  flushThrows, cbLog, batches, disposeCalls, disposedInRun >>

\* An update that stores the value it found.
UpdatedKeeps(s) == val[s]

\* updater(_val): the closure variable is read, not the value getter.
Updated(s) == Bump(val[s])

\* sig.update(updater) made by the running function: sig.value = updater(_val).
UpdateOp ==
  /\ UNCHANGED << qvars, svars, mvars >>
  /\ AtOp
  /\ When(TopOp.when, seen[Top.eff])
  /\ TopOp.op = "update"
  /\ LET s == TopOp.sig
         v == Updated(s)
     IN /\ SetValue(s, v)
        /\ NoteWrite(s, v)
        /\ lastEvent' = Event("effectUpdate", Top.eff, s, v)
  /\ effectStack' = Advanced
  /\ UNCHANGED << subs, toRun, flushing, currentEffect, active, estate, deps,
                  wstate, ctl, fnCalls, seen, reads, flushBatch, invoked,
                  flushThrows, cbLog, batches, disposeCalls, disposedInRun >>

\* sig.update(updater) in user code.
EnvUpdate(s) ==
  /\ UNCHANGED << qvars, svars, mvars >>
  /\ UserTurn
  /\ SetValue(s, Updated(s))
  /\ NoteWrite(s, Updated(s))
  /\ ops' = ops + 1
  /\ lastEvent' = Event("update", "-", s, Updated(s))
  /\ UNCHANGED << subs, toRun, flushing, effectStack, currentEffect, active,
                  estate, deps, wstate, phase, fnCalls, seen, reads, flushBatch,
                  invoked, flushThrows, cbLog, batches, disposeCalls,
                  disposedInRun >>

\* No try/catch around fn(): the exception ends the flush callback.
AfterThrowAbort(rest) == << >>

\* What is left of the flush's array after the try/catch around fn() has
\* caught an exception: forEach goes on with the next element.
AfterThrow(rest) == rest

\* The effect() call that made the running runner stands in a try block of
\* the function below it on the stack.
Guarded ==
  /\ Len(effectStack) >= 2
  /\ LET below == effectStack[Len(effectStack) - 1]
     IN below.pc >= 2 /\ Body(below.eff)[below.pc - 1].op = "tryEffect"

\* The effect (runner object) an effect() call inside a function makes: a new
\* one with every call.
FreshNested == IF estate["in1"] = "none" THEN {"in1"}
               ELSE IF estate["in2"] = "none" THEN {"in2"} ELSE {}

\* effect(fn) called by the running function: the new runner is pushed above
\* the caller's and becomes the current effect.
NestOp ==
  /\ UNCHANGED << qvars, svars, mvars >>
  /\ AtOp
  /\ When(TopOp.when, seen[Top.eff])
  /\ TopOp.op = "tryEffect"
  /\ \E n \in FreshNested :
       /\ estate' = [estate EXCEPT ![n] = "init"]
       /\ subs' = CleanedSubs(n)
       /\ deps' = [deps EXCEPT ![n] = {}]
       /\ effectStack' = Append(Advanced, [eff |-> n, pc |-> 1])
       /\ currentEffect' = n
       /\ fnCalls' = [fnCalls EXCEPT ![n] = @ + 1]
       /\ seen' = [seen EXCEPT ![n] = [s \in Signals |-> Undefined]]
       /\ reads' = [reads EXCEPT ![n] = {}]
       /\ lastEvent' = Event("nest", n, "-", 0)
  /\ UNCHANGED << val, effectQueue, effectScheduled, microtasks, toRun, flushing,
                  active, wstate, ctl, flushBatch, invoked, flushThrows,
                  turnWrites, cbLog, commitLog, batches, dirty, lastCommit,
                  disposeCalls, disposedInRun >>

\* The function of a nested effect throws during the run effect() makes: its
\* runner leaves through the finally block and the caller's catch takes the
\* exception; effect() has not returned a disposer.
CaughtThrowOp ==
  /\ UNCHANGED << qvars, svars, mvars >>
  /\ AtOp
  /\ When(TopOp.when, seen[Top.eff])
  /\ TopOp.op = "throw"
  /\ Guarded
  /\ LET e == Top.eff
         popped == SubSeq(effectStack, 1, Len(effectStack) - 1)
     IN /\ effectStack' = popped
        /\ currentEffect' = StackTop(popped)
        /\ estate' = [estate EXCEPT ![e] = IF @ = "init" THEN "failed" ELSE @]
        /\ lastEvent' = Event("caught", e, "-", 0)
  /\ UNCHANGED << val, subs, effectQueue, effectScheduled, microtasks, toRun,
                  flushing, active, deps, wstate, ctl, fnCalls, seen, reads,
                  flushBatch, invoked, flushThrows, turnWrites, cbLog,
                  commitLog, batches, dirty, lastCommit, disposeCalls, disposedInRun >>

\* sig.value read by user code, outside every effect.
EnvRead(s) ==
  /\ UNCHANGED << qvars, svars, mvars >>
  /\ UserTurn
  /\ IF currentEffect # Null
     THEN /\ subs' = [subs EXCEPT ![s] = SetAdd(@, currentEffect)]
          /\ deps' = [deps EXCEPT ![currentEffect] = @ \cup {s}]
     ELSE UNCHANGED << subs, deps >>
  /\ ops' = ops + 1
  /\ lastEvent' = Event("envRead", "-", s, val[s])
  /\ UNCHANGED << val, effectQueue, effectScheduled, microtasks, toRun, flushing,
                  effectStack, currentEffect, active, estate, wstate, phase,
                  fnCalls, seen, reads, flushBatch, invoked, flushThrows,
                  turnWrites, cbLog, commitLog, batches, dirty, lastCommit,
                  disposeCalls, disposedInRun >>

\* The running function throws.  Every runner on the stack leaves through its
\* finally block; effect() calls that were in progress never return a disposer.
\* In a flush the exception ends in the flush's catch.
ThrowOp ==
  /\ UNCHANGED << qvars, svars, mvars >>
  /\ AtOp
  /\ When(TopOp.when, seen[Top.eff])
  /\ TopOp.op = "throw"
  /\ ~Guarded
  /\ effectStack' = << >>
  /\ currentEffect' = Null
  /\ estate' = [e \in Effects |->
                  IF estate[e] = "init" /\ e \in { effectStack[i].eff : i \in 1..Len(effectStack) }
                  THEN "failed" ELSE estate[e]]
  /\ toRun' = IF flushing THEN AfterThrow(toRun) ELSE toRun
  /\ flushThrows' = IF flushing THEN flushThrows + 1 ELSE flushThrows
  /\ lastEvent' = Event("throw", Top.eff, "-", 0)
  /\ UNCHANGED << val, subs, effectQueue, effectScheduled, microtasks, flushing,
                  active, deps, wstate, ctl, fnCalls, seen, reads, flushBatch,
                  invoked, turnWrites, cbLog, commitLog, batches, dirty, lastCommit,
                  disposeCalls, disposedInRun >>

\* The function returns: the runner's finally block pops the stack and restores
\* the current effect; effect(), if this was its call, returns the disposer.
ReturnOp ==
  /\ UNCHANGED << qvars, svars, mvars >>
  /\ Running
  /\ ~AtOp
  /\ LET e == Top.eff
         popped == SubSeq(effectStack, 1, Len(effectStack) - 1)
     IN /\ effectStack' = popped
        /\ currentEffect' = StackTop(popped)
        /\ estate' = [estate EXCEPT ![e] = IF @ = "init" THEN "ready" ELSE @]
        /\ lastEvent' = Event("return", e, "-", 0)
  /\ UNCHANGED << val, subs, effectQueue, effectScheduled, microtasks, toRun,
                  flushing, active, deps, wstate, ctl, fnCalls, seen, reads,
                  flushBatch, invoked, flushThrows, turnWrites, cbLog,
                  commitLog, batches, dirty, lastCommit, disposeCalls, disposedInRun >>

\* ------------------------------------------------------------------ the flush
\* The flush called synchronously instead of through queueMicrotask.
FlushEnabledInTurn == microtasks > 0

\* queueMicrotask runs the callback at the microtask checkpoint that follows
\* the synchronous turn, never inside it.
FlushEnabled == phase = "micro" /\ microtasks > 0

\* A flush that copies the pending set without clearing it.
NotCleared(q) == q

\* _effectQueue.clear()
Cleared(q) == << >>

\* The callback handed to queueMicrotask starts: the flag is reset and the
\* queue is copied and cleared.
FlushBegin ==
  /\ UNCHANGED << qvars, svars, mvars >>
  /\ Idle
  /\ FlushEnabled
  /\ microtasks' = microtasks - 1
  /\ effectScheduled' = FALSE
  /\ toRun' = effectQueue
  /\ effectQueue' = Cleared(effectQueue)
  /\ flushing' = TRUE
  /\ flushBatch' = effectQueue
  /\ invoked' = << >>
  /\ flushThrows' = 0
  /\ batches' = [w \in Wrappers |-> IF dirty[w] THEN batches[w] + 1 ELSE batches[w]]
  /\ dirty' = [w \in Wrappers |-> FALSE]
  /\ lastEvent' = Event("flushBegin", "-", "-", 0)
  /\ UNCHANGED << val, subs, effectStack, currentEffect, active, estate, deps,
                  wstate, ctl, fnCalls, seen, reads, turnWrites, cbLog,
                  commitLog, lastCommit, disposeCalls, disposedInRun >>

\* toRun.forEach: the next element is a subscribe wrapper, () => fn(_val).
FlushCallWrapper ==
  /\ UNCHANGED << qvars, svars, mvars >>
  /\ flushing
  /\ ~Running
  /\ toRun # << >>
  /\ Head(toRun) \in Wrappers
  /\ LET w == Head(toRun)
     IN /\ cbLog' = [cbLog EXCEPT ![w] = Append(@, val[WrapperSignal(w)])]
        /\ lastEvent' = Event("callback", w, WrapperSignal(w), val[WrapperSignal(w)])
  /\ toRun' = Tail(toRun)
  /\ invoked' = Append(invoked, Head(toRun))
  /\ UNCHANGED << val, subs, effectQueue, effectScheduled, microtasks, flushing,
                  effectStack, currentEffect, active, estate, deps, wstate, ctl,
                  fnCalls, seen, reads, flushBatch, flushThrows, turnWrites,
                  commitLog, batches, dirty, lastCommit, disposeCalls, disposedInRun >>

\* runner() without its `active` test.
RunnerIgnoresActive(e) == TRUE

\* if (!active) return, the first statement of runner().
RunnerProceeds(e) == active[e]

\* toRun.forEach: the next element is an effect's runner.
FlushCallRunner ==
  /\ UNCHANGED << qvars, svars, mvars >>
  /\ flushing
  /\ ~Running
  /\ toRun # << >>
  /\ Head(toRun) \in Effects
  /\ LET e == Head(toRun)
     IN IF RunnerProceeds(e)
        THEN /\ RunnerEnter(e)
             /\ lastEvent' = Event("rerun", e, "-", 0)
        ELSE /\ UNCHANGED << subs, deps, effectStack, currentEffect, fnCalls,
                             seen, reads >>
             /\ lastEvent' = Event("inert", e, "-", 0)
  /\ toRun' = Tail(toRun)
  /\ invoked' = Append(invoked, Head(toRun))
  /\ UNCHANGED << val, effectQueue, effectScheduled, microtasks, flushing, active,
                  estate, wstate, ctl, flushBatch, flushThrows, turnWrites,
                  cbLog, commitLog, batches, dirty, lastCommit, disposeCalls,
                  disposedInRun >>

\* The flush callback returns.
FlushEnd ==
  /\ UNCHANGED << qvars, svars, mvars >>
  /\ flushing
  /\ ~Running
  /\ toRun = << >>
  /\ flushing' = FALSE
  /\ lastEvent' = Event("flushEnd", "-", "-", 0)
  /\ UNCHANGED << val, subs, effectQueue, effectScheduled, microtasks, toRun,
                  effectStack, currentEffect, active, estate, deps, wstate, ctl,
                  fnCalls, seen, reads, flushBatch, invoked, flushThrows,
                  turnWrites, cbLog, commitLog, batches, dirty, lastCommit, disposeCalls,
                  disposedInRun >>

\* ----------------------------------------------------------- specification
Next ==
  \/ \E s \in EnvSignals, v \in Values : EnvWrite(s, v)
  \/ \E e \in TopEffects : EnvCreate(e)
  \/ \E e \in Effects : EnvDispose(e)
  \/ \E w \in Wrappers : EnvSubscribe(w)
  \/ \E w \in Wrappers : EnvUnsubscribe(w)
  \/ EndTurn
  \/ NextTurn
  \/ SkipOp
  \/ ReadOp
  \/ DisposeOp
  \/ ThrowOp
  \/ ReturnOp
  \/ FlushBegin
  \/ FlushCallWrapper
  \/ FlushCallRunner
  \/ FlushEnd

Spec == Init /\ [][Next]_vars

\* What the JavaScript engine does without being asked: a synchronous turn
\* comes to its end, a function that was called runs on to its return or
\* throw, and the microtask checkpoint runs every callback handed to
\* queueMicrotask, each to completion.
EngineStep ==
  \/ EndTurn
  \/ SkipOp
  \/ ReadOp
  \/ DisposeOp
  \/ ThrowOp
  \/ ReturnOp
  \/ FlushBegin
  \/ FlushCallWrapper
  \/ FlushCallRunner
  \/ FlushEnd

\* The reactive system with user code writing a only (every effect and the
\* subscriber depend on a), and the engine making progress.
LiveNext ==
  \/ \E v \in Values : EnvWrite("a", v)
  \/ \E e \in TopEffects : EnvCreate(e)
  \/ \E e \in Effects : EnvDispose(e)
  \/ \E w \in Wrappers : EnvSubscribe(w)
  \/ \E w \in Wrappers : EnvUnsubscribe(w)
  \/ NextTurn
  \/ EngineStep

LiveSpec == Init /\ [][LiveNext]_vars /\ WF_vars(EngineStep)

\* What an effect function refers to must exist when effect() is called with
\* it: view reads the signal computed() returned.
Creatable(e) ==
  /\ e = "view" => estate["comp"] = "ready"
  /\ e = "watch" => estate["sum"] = "ready"

\* An effect that creates an effect, over the signals a and b.
NestNext ==
  \/ \E s \in {"a", "b"}, v \in Values : EnvWrite(s, v)
  \/ EnvCreate("outer")
  \/ \E s \in {"a", "b"} : EnvRead(s)
  \/ EndTurn
  \/ NextTurn
  \/ SkipOp
  \/ ReadOp
  \/ NestOp
  \/ CaughtThrowOp
  \/ ThrowOp
  \/ ReturnOp
  \/ FlushBegin
  \/ FlushCallRunner
  \/ FlushEnd

NestSpec == Init /\ [][NestNext]_vars

\* The computed, its reader and the updating effects, over the signals a and b.
DeriveNext ==
  \/ \E s \in {"a", "b"}, v \in Values : EnvWrite(s, v)
  \/ \E e \in DerivedEffects : Creatable(e) /\ EnvCreate(e)
  \/ EnvUpdate("b")
  \/ EndTurn
  \/ NextTurn
  \/ SkipOp
  \/ ReadOp
  \/ WriteOp
  \/ UpdateOp
  \/ ReturnOp
  \/ FlushBegin
  \/ FlushCallRunner
  \/ FlushEnd

DeriveSpec == Init /\ [][DeriveNext]_vars

\* The second computed and its reader, over the signals a and b.
TotalNext ==
  \/ \E s \in {"a", "b"}, v \in Values : EnvWrite(s, v)
  \/ \E e \in TotalEffects : Creatable(e) /\ EnvCreate(e)
  \/ EndTurn
  \/ NextTurn
  \/ ReadOp
  \/ WriteOp
  \/ ReturnOp
  \/ FlushBegin
  \/ FlushCallRunner
  \/ FlushEnd

TotalSpec == Init /\ [][TotalNext]_vars

\* User code makes no more than MaxEntries Queries.
RoomForEntry == Cardinality({ q \in QIds : query[q].made }) < MaxEntries

\* Listeners are interchangeable: user code subscribes them in order.
NextListener(l) == \A k \in Listeners : k < l => listeners[k].q # NoQuery

\* Two cache entries with subscribers, time and the sweep.
SweepNext ==
  \/ \E k \in CacheKeys, o \in SweepOptionSets : RoomForEntry /\ CreateQuery(k, o)
  \/ \E l \in Listeners, q \in QIds : NextListener(l) /\ Subscribe(l, q)
  \/ \E l \in Listeners : Unsubscribe(l)
  \/ \E a \in inflight : Resolve(a)
  \/ \E d \in Durations : Tick(d)
  \/ RemoveUnused

SweepSpec == Init /\ [][SweepNext]_vars

\* Two cache entries with subscribers, time and the window's events.
WindowNext ==
  \/ \E k \in CacheKeys, o \in WindowOptionSets : RoomForEntry /\ CreateQuery(k, o)
  \/ \E l \in Listeners, q \in QIds : NextListener(l) /\ Subscribe(l, q)
  \/ \E l \in Listeners : Unsubscribe(l)
  \/ \E a \in inflight : Resolve(a)
  \/ \E a \in inflight : Reject(a, "Error")
  \/ \E d \in Durations : Tick(d)
  \/ Focus
  \/ Online

WindowSpec == Init /\ [][WindowNext]_vars

MutationNext ==
  \/ \E x \in Values : Mutate(x)
  \/ \E a \in mflight : MutateResolve(a)
  \/ \E a \in mflight, e \in MutationErrors : MutateReject(a, e)

MutationSpec == Init /\ [][MutationNext]_vars

QueryNext ==
  \/ \E k \in Keys, o \in OptionSets : CreateQuery(k, o)
  \/ \E q \in QIds, force \in BOOLEAN : Refetch(q, force)
  \/ \E a \in inflight : Resolve(a)
  \/ \E a \in inflight, e \in FetchErrors : Reject(a, e)
  \/ \E k \in Keys : InvalidateQueries(k)

QuerySpec == Init /\ [][QueryNext]_vars

\* One cache entry whose callbacks may throw; fetchers fail with an Error.
CallbackNext ==
  \/ \E o \in OptionSets : CreateQuery(Key("str", "k", << >>), o)
  \/ \E q \in QIds, force \in BOOLEAN : Refetch(q, force)
  \/ \E a \in inflight, bad \in Throwers : ResolveThrowing(a, bad)
  \/ \E a \in inflight, bad \in Throwers : RejectThrowing(a, "Error", bad)

CallbackSpec == Init /\ [][CallbackNext]_vars

\* One cache entry, with time passing.
StaleNext ==
  \/ \E o \in OptionSets : CreateQuery(Key("str", "k", << >>), o)
  \/ \E q \in QIds, force \in BOOLEAN : Refetch(q, force)
  \/ \E a \in inflight : Resolve(a)
  \/ \E a \in inflight, e \in FetchErrors : Reject(a, e)
  \/ \E d \in Durations : Tick(d)

StaleSpec == Init /\ [][StaleNext]_vars


\* ------------------------------------------------------------------ claims
\* The signals in whose subs set a function is registered.
Registered(f) == { s \in Signals : f \in Range(subs[s]) }
OnStack(e) == \E i \in 1..Len(effectStack) : effectStack[i].eff = e
Count(seq, x) == Cardinality({ i \in 1..Len(seq) : seq[i] = x })
\* Nothing is running and no flush is pending.
Quiescent == Idle /\ microtasks = 0 /\ effectQueue = << >>
IsWrite(ev) == ev.type = "write"
RunEnded(ev) == ev.type \in {"return", "throw"}

\* C3: a write of a value the signal's equality function reports equal to the
\* current one leaves the stored value as it is, adds nothing to the pending
\* set, schedules no flush and invokes no effect function and no callback.
C3_EqualWriteIsNoOp ==
  [][ (IsWrite(lastEvent') /\ Equals(lastEvent'.sig, val[lastEvent'.sig], lastEvent'.v))
      => /\ val' = val
         /\ effectQueue' = effectQueue
         /\ effectScheduled' = effectScheduled
         /\ microtasks' = microtasks
         /\ toRun' = toRun
         /\ fnCalls' = fnCalls
         /\ cbLog' = cbLog ]_vars

\* An equal write of a different value (2 over 0, equal by parity) was made to
\* a signal that has a dependent: the stored value is still the old one.
C3_Witness ==
  /\ IsWrite(lastEvent)
  /\ lastEvent.sig = "c"
  /\ lastEvent.v = 2
  /\ val["c"] = 0
  /\ subs["c"] # << >>

\* C4 as stated: once everything pending has run, a subscribe callback has been
\* invoked once per committed write, with the value of each of those writes.
C4_OnePerCommittedWrite ==
  Quiescent => \A w \in Wrappers : cbLog[w] = commitLog[w]

\* C4 as amended: a subscribe callback is invoked once per flush that follows
\* at least one committed write made while it was subscribed (never more often
\* than there were such writes), and each invocation receives the value of the
\* latest committed write to the signal, which is its value at that time.
C4_OnePerFlush ==
  /\ Quiescent => \A w \in Wrappers : /\ Len(cbLog[w]) = batches[w]
                                      /\ Len(cbLog[w]) <= Len(commitLog[w])
  /\ lastEvent.type = "callback"
       => /\ lastEvent.v = lastCommit[lastEvent.sig]
          /\ cbLog[lastEvent.who][Len(cbLog[lastEvent.who])] = lastEvent.v

\* Two committed writes in one turn, one invocation, with the second value.
C4_Witness ==
  /\ Quiescent
  /\ Len(commitLog["w"]) = 2
  /\ commitLog["w"][1] # commitLog["w"][2]
  /\ cbLog["w"] = << commitLog["w"][2] >>

\* C5 as stated: when a run of an effect ends, the effect is registered in
\* exactly the subs sets of the signals read during that run.
C5_DepsAreReadsOfRun ==
  RunEnded(lastEvent) =>
    /\ Registered(lastEvent.who) = reads[lastEvent.who]
    /\ deps[lastEvent.who] = reads[lastEvent.who]

\* C5 as amended: the same for every effect whose disposer has not been called,
\* from the end of a run until its next run; and a committed write to a signal
\* such an effect did not read in its latest run does not put it in the
\* pending set.
Settled(e) == estate[e] \in {"ready", "failed"} /\ active[e] /\ ~OnStack(e)
C5_DepsAreReadsUnlessDisposed ==
  [][ /\ \A e \in Effects :
           (estate'[e] \in {"ready", "failed"} /\ active'[e] /\
            \A i \in 1..Len(effectStack') : effectStack'[i].eff # e)
           => (Registered(e)' = reads'[e] /\ deps'[e] = reads'[e])
      /\ \A e \in Effects :
           (IsWrite(lastEvent') /\ Settled(e) /\ lastEvent'.sig \notin reads[e]
              /\ e \notin Range(effectQueue))
           => e \notin Range(effectQueue') ]_vars

\* cond has re-run on its other branch (a, c), and now a committed write to b,
\* which only its first run read, has left it out of the pending set.
C5_Witness ==
  /\ IsWrite(lastEvent)
  /\ lastEvent.sig = "b"
  /\ val["b"] = lastEvent.v
  /\ lastEvent.v # 0
  /\ fnCalls["cond"] = 2
  /\ reads["cond"] = {"a", "c"}
  /\ Settled("cond")
  /\ "cond" \notin Range(effectQueue)

\* C6: however many signals are written in a turn, at most one flush callback
\* is queued, and neither the pending set nor a flush holds (or calls) a
\* function twice.
C6_OneFlushOneRun ==
  /\ microtasks <= 1
  /\ \A f \in Effects \cup Wrappers :
       /\ Count(effectQueue, f) <= 1
       /\ Count(flushBatch, f) <= 1
       /\ Count(invoked, f) <= 1

\* cond depended on a and b; both were written in one turn; the flush that
\* followed has ended and called cond once.
C6_Witness ==
  /\ lastEvent.type = "flushEnd"
  /\ invoked = << "cond" >>
  /\ fnCalls["cond"] = 2
  /\ turnWrites["a"] >= 1
  /\ turnWrites["b"] >= 1

\* C7: an effect is re-run only in a flush at the microtask checkpoint, never
\* inside the turn that wrote; and when the checkpoint is over, the values
\* every live effect read in its latest run are the signals' final values.
C7_RerunAfterTurnSeesFinal ==
  /\ (flushing \/ \E i \in 1..Len(effectStack) : estate[effectStack[i].eff] # "init")
       => phase = "micro"
  /\ (phase = "micro" /\ Quiescent)
       => \A e \in Effects : Settled(e)
            => \A s \in reads[e] : seen[e][s] = val[s]

\* a was written twice in the turn (1, then 2); cond's re-run has just ended
\* and read the second value.
C7_Witness ==
  /\ lastEvent.type = "return"
  /\ lastEvent.who = "cond"
  /\ flushing
  /\ turnWrites["a"] = 2
  /\ seen["cond"]["a"] = val["a"]
  /\ fnCalls["cond"] = 2

\* C8: a flush calls every function it started with, also after one of them
\* threw; and the scheduled flag is set exactly while a flush callback is
\* queued, so later writes schedule a flush again.
C8_ThrowDoesNotStopFlush ==
  /\ lastEvent.type = "flushEnd" => invoked = flushBatch
  /\ (flushing /\ ~Running) => flushBatch = invoked \o toRun
  /\ effectScheduled <=> microtasks > 0
  /\ effectQueue # << >> => effectScheduled

\* A flush that started with guard and cond has ended; guard threw, and cond,
\* which came after it, was run.
C8_Witness ==
  /\ lastEvent.type = "flushEnd"
  /\ flushThrows = 1
  /\ flushBatch = << "guard", "cond" >>
  /\ fnCalls["cond"] = 2

\* C9: no step invokes the function of an effect whose disposer has been
\* called.
C9_DisposedNeverRuns ==
  [][ \A e \in Effects : ~active[e] => fnCalls'[e] = fnCalls[e] ]_vars

\* guard called its disposer from its own run, was scheduled again, had its
\* disposer called a second time, and the flush has just found it inert.
C9_Witness ==
  /\ lastEvent.type = "inert"
  /\ lastEvent.who = "guard"
  /\ disposedInRun["guard"]
  /\ disposeCalls["guard"] = 2


\* ------------------------------------------------------ claims: query cache
Settles(ev) == ev.type \in {"resolve", "reject"}
RunStep == qEvent'.type = "run" /\ calls' = calls + 1
CreateStep == qEvent'.type = "create" /\ calls' = calls + 1
Results(r) == << r.data, r.error, r.status >>

\* C1: the settling of an attempt whose sequence number is no longer the
\* Query's requestId changes none of data, error and status; and data and
\* error change, and status becomes success or error, only when the attempt
\* whose number is the requestId settles.
C1_SupersededNeverCommits ==
  [][ \A q \in QIds : query[q].made =>
        /\ (Settles(qEvent') /\ qEvent'.q = q /\ qEvent'.id # query[q].requestId)
             => Results(query'[q]) = Results(query[q])
        /\ (\/ query'[q].data # query[q].data
            \/ query'[q].error # query[q].error
            \/ (query'[q].status # query[q].status
                  /\ query'[q].status \in {"success", "error"}))
             => (Settles(qEvent') /\ qEvent'.q = q
                   /\ qEvent'.id = query[q].requestId) ]_vars

\* A later attempt has committed its result; now the earlier attempt has
\* resolved, with another value, and was dropped.
C1_Witness ==
  /\ qEvent.type = "resolve"
  /\ qEvent.res = "dropped"
  /\ qEvent.id < query[qEvent.q].requestId
  /\ query[qEvent.q].status = "success"
  /\ query[qEvent.q].data = FetchValue(query[qEvent.q].requestId)
  /\ query[qEvent.q].data # qEvent.v

\* C2 as stated: a non-forced run made less than the stale duration after the
\* previous non-forced run of the same Query invokes no fetcher and returns
\* the cached data.
C2_SecondCallNeverFetches ==
  [][ \A q \in QIds :
        (RunStep /\ qEvent'.q = q /\ ~qEvent'.force
           /\ lastPlainCall[q] # Undefined
           /\ clock - lastPlainCall[q] < staleTime(query[q]))
        => (fetchCalls'[q] = fetchCalls[q] /\ qEvent'.res = "cached") ]_vars

\* C2 as amended: a non-forced run made while status is success, forceRefetch
\* is unset and no more than the stale duration has passed since the last
\* committed success invokes no fetcher, starts no attempt and returns the
\* cached data: so does the second of two non-forced runs less than the stale
\* duration apart when the fetch of the first was committed before it.  A
\* non-forced run made while status is not success starts a new attempt.
C2_FreshSuccessIsCached ==
  [][ \A q \in QIds : (RunStep /\ qEvent'.q = q /\ ~qEvent'.force) =>
        LET r == query[q] IN
        /\ (r.status = "success" /\ ~r.options.forceRefetch
              /\ clock - r.lastUpdated <= staleTime(r))
             => /\ qEvent'.res = "cached"
                /\ qEvent'.v = r.data
                /\ << query, inflight, fetchCalls >>' = << query, inflight, fetchCalls >>
        /\ (r.status = "success" /\ ~r.options.forceRefetch
              /\ lastPlainCall[q] # Undefined
              /\ r.lastUpdated >= lastPlainCall[q]
              /\ clock - lastPlainCall[q] < staleTime(r))
             => (qEvent'.res = "cached" /\ fetchCalls'[q] = fetchCalls[q])
        /\ r.status # "success"
             => /\ qEvent'.res = "started"
                /\ fetchCalls'[q] = fetchCalls[q] + 1
                /\ query'[q].requestId = r.requestId + 1 ]_vars

\* Two non-forced runs some time, but less than the stale duration, apart: the
\* fetch of the first was committed, the second has returned the cached data,
\* and the fetcher has been invoked once.
C2_Witness ==
  /\ qEvent.type = "run"
  /\ ~qEvent.force
  /\ qEvent.res = "cached"
  /\ qEvent.arg # Undefined
  /\ qEvent.arg < clock
  /\ clock - qEvent.arg < staleTime(query[qEvent.q])
  /\ query[qEvent.q].lastUpdated >= qEvent.arg
  /\ qEvent.v = query[qEvent.q].data
  /\ fetchCalls[qEvent.q] = 1

\* The entries of the key -> Query map: each is a constructed Query filed
\* under its own hash, and no Query is filed under two hashes.
OnePerKey ==
  \A h \in Hashes : queries[h] # NoQuery =>
    /\ query[queries[h]].made
    /\ query[queries[h]].hash = h
    /\ \A g \in Hashes : queries[g] = queries[h] => g = h

\* C10: the map holds one Query per cache key, and createQuery called with a
\* key whose hash is in the map returns the Query filed there and changes
\* nothing: not the map, not a field of any Query (fetcher and options
\* included), and no fetcher is called.
C10_OneQueryPerKey ==
  [][ /\ OnePerKey'
      /\ (CreateStep /\ queries[qEvent'.v] # NoQuery)
           => /\ qEvent'.q = queries[qEvent'.v]
              /\ << queries, query, inflight, fetchCalls >>'
                   = << queries, query, inflight, fetchCalls >> ]_vars

\* createQuery was called with another key of the same hash, another fetcher
\* and other options than the existing Query was made with: that Query was
\* returned and still has its own.
C10_Witness ==
  /\ qEvent.type = "create"
  /\ qEvent.res = "existing"
  /\ queries[qEvent.v] = qEvent.q
  /\ query[qEvent.q].key # qEvent.arg.key
  /\ query[qEvent.q].options # qEvent.arg.options
  /\ query[qEvent.q].fetcher # Fetcher(calls)
  /\ query[qEvent.q].isFetching


\* ------------------------------------------ claims: invalidation and failure
InvalidateStep == qEvent'.type = "invalidate" /\ calls' = calls + 1
\* Everything of Query q, the fetcher calls made for it included.
AllOf(q) == << query[q], fetchCalls[q], { a \in inflight : a.q = q } >>
\* The fetcher of the settled attempt rejected with an AbortError.
Cancelled(ev) == ev.type = "reject" /\ ev.v = "AbortError"
\* The attempt that settles in this step is the Query's current one.
SettlesCurrent(q) ==
  Settles(qEvent') /\ qEvent'.q = q /\ qEvent'.id = query[q].requestId

\* C11 as stated: invalidateQueries(key) moves the Query of that key from
\* success to loading, the settling of the attempt it started moves it on to
\* success or error, and the Queries of other keys are left as they were.
C11_InvalidateGoesToLoading ==
  [][ /\ InvalidateStep =>
           \A q \in InMap :
             IF query[q].hash = qEvent'.v
             THEN query[q].status = "success" => query'[q].status = "loading"
             ELSE AllOf(q)' = AllOf(q)
      /\ \A q \in QIds :
           (SettlesCurrent(q) /\ ~Cancelled(qEvent'))
             => query'[q].status = IF qEvent'.type = "resolve" THEN "success"
                                   ELSE "error" ]_vars

\* C11 as amended: invalidateQueries(key) starts one forced attempt for the
\* Query of that key; a Query in success goes to loading, or with
\* keepPreviousData stays in success, with isFetching set and data kept; the
\* attempt, if still current when it settles, moves the Query to success when
\* the fetcher resolved and to error when it failed other than by
\* cancellation; the Queries of other keys are left as they were.
C11_InvalidateRefetchesMatching ==
  [][ /\ InvalidateStep =>
           \A q \in InMap :
             IF query[q].hash = qEvent'.v
             THEN /\ q \in qEvent'.arg
                  /\ fetchCalls'[q] = fetchCalls[q] + 1
                  /\ query'[q].requestId = query[q].requestId + 1
                  /\ query'[q].isFetching
                  /\ query'[q].data = query[q].data
                  /\ query[q].status = "success" =>
                       query'[q].status = IF query[q].options.keepPreviousData
                                          THEN "success" ELSE "loading"
                  /\ query[q].status # "success" => query'[q].status = "loading"
             ELSE AllOf(q)' = AllOf(q)
      /\ \A q \in QIds :
           (SettlesCurrent(q) /\ ~Cancelled(qEvent'))
             => query'[q].status = IF qEvent'.type = "resolve" THEN "success"
                                   ELSE "error" ]_vars

\* Two Queries in the map, one in success; invalidateQueries with the key of
\* the other, which was in success, has put that one in loading.
C11_Witness ==
  /\ qEvent.type = "invalidate"
  /\ qEvent.res = "started"
  /\ \E q \in qEvent.arg, p \in InMap :
       /\ p # q
       /\ query[p].status = "success"
       /\ query[q].status = "loading"
       /\ \E a \in inflight :
            a.q = q /\ a.id = query[q].requestId /\ a.before[3] = "success"


\* The record of the fetcher call that settles in this step.
SettledCall == CHOOSE a \in inflight : a.q = qEvent'.q /\ a.id = qEvent'.id

\* C12: when the fetcher of the current attempt fails with anything but a
\* cancellation, status becomes error, error holds the failure, data is what
\* it was before the attempt was started, isFetching is cleared, onError and
\* then onSettled are invoked, and the promise of the run rejects with the
\* failure.
C12_FailureOfCurrentAttempt ==
  [][ \A q \in QIds :
        (SettlesCurrent(q) /\ qEvent'.type = "reject" /\ ~Cancelled(qEvent'))
        => /\ query'[q].status = "error"
           /\ query'[q].error = qEvent'.v
           /\ query'[q].data = query[q].data
           /\ query'[q].data = SettledCall.before[1]
           /\ ~query'[q].isFetching
           /\ qEvent'.arg = << "onError", "onSettled" >>
           /\ qEvent'.res = "threw" ]_vars

\* A Query that held fetched data has failed a later attempt: it is in error
\* with the data of the earlier success.
C12_Witness ==
  /\ qEvent.type = "reject"
  /\ qEvent.res = "threw"
  /\ qEvent.id = query[qEvent.q].requestId
  /\ query[qEvent.q].status = "error"
  /\ query[qEvent.q].error = qEvent.v
  /\ query[qEvent.q].data # Undefined
  /\ query[qEvent.q].lastUpdated > 0
  /\ ~query[qEvent.q].isFetching

\* C13 as stated: when the fetcher of the current attempt rejects with an
\* AbortError, isFetching is false afterwards and data, error and status are
\* what they were before the attempt was started.
C13_AbortRestoresIdle ==
  [][ \A q \in QIds :
        (SettlesCurrent(q) /\ Cancelled(qEvent'))
        => /\ ~query'[q].isFetching
           /\ << query'[q].data, query'[q].error, query'[q].status >>
                = SettledCall.before ]_vars


\* ------------------------------------------------- claims: computed, flush
\* C14: whenever nothing is pending or running, the computed's output signal
\* holds the getter's result on the current values of the signals, and the
\* latest run of an effect that reads the computed has read that value; a
\* committed write to the output signal puts every effect registered with it
\* in the pending set with a flush scheduled.
C14_ComputedFollows ==
  [][ /\ (Quiescent' /\ estate'["comp"] = "ready")
           => val'["out"] = Getter(val')
      /\ (Quiescent' /\ estate'["comp"] = "ready" /\ estate'["view"] = "ready")
           => seen'["view"]["out"] = val'["out"]
      /\ val'["out"] # val["out"]
           => /\ lastEvent'.type = "effectWrite" /\ lastEvent'.who = "comp"
              /\ \A f \in Range(subs["out"]) : f \in Range(effectQueue')
              /\ subs["out"] # << >> => (effectScheduled' /\ microtasks' > 0) ]_vars

\* The computed has followed writes to both of its dependencies and its
\* reader has been re-run: all is quiet, the getter is on its second branch.
C14_Witness ==
  /\ Quiescent
  /\ estate["comp"] = "ready"
  /\ estate["view"] = "ready"
  /\ val["a"] # 0
  /\ val["out"] = val["b"]
  /\ val["out"] > 0
  /\ fnCalls["comp"] >= 2
  /\ fnCalls["view"] >= 2
  /\ seen["view"]["out"] = val["out"]


\* ---------------------------------------------------------- claims: mutation
\* C15 as stated: every mutate call whose fn fails ends with its promise
\* rejected and with the failure in the mutation's status (error) and error
\* signals, whatever other mutate calls are in flight.
C15_EveryFailureSurfaces ==
  [][ mEvent'.type = "reject"
        => /\ mEvent'.res = "rejected"
           /\ mutation'.status = "error"
           /\ mutation'.error = mEvent'.v ]_vars


\* ------------------------------------------------------ claims: query status
\* The status changes the claim lists.
ListedMoves == { << "idle", "loading" >>, << "loading", "success" >>,
                 << "loading", "error" >>, << "success", "loading" >>,
                 << "error", "loading" >> }
\* A step in which a new attempt is started for Query q.
StartsAttempt(q) == query'[q].requestId = query[q].requestId + 1
\* What _run leaves status at when it starts an attempt.
StatusAfterStart(r) ==
  IF r.status = "success" /\ r.options.keepPreviousData THEN "success"
  ELSE "loading"
\* A Query comes into being in idle, in success (initialData) or, its first
\* attempt started at once, in loading.
BornRight(q) == ~query[q].made /\ query'[q].made
                  => query'[q].status \in {"idle", "success", "loading"}

\* C16 as stated: status changes only along idle->loading, loading->success,
\* loading->error, success->loading, error->loading; a run that starts an
\* attempt sets status to loading, but with keepPreviousData a Query in
\* success stays in success.
C16_OnlyListedMoves ==
  [][ \A q \in QIds :
        /\ BornRight(q)
        /\ (query[q].made /\ query'[q].status # query[q].status)
             => << query[q].status, query'[q].status >> \in ListedMoves
        /\ (query[q].made /\ StartsAttempt(q))
             => query'[q].status = StatusAfterStart(query[q]) ]_vars

\* C16 as amended: as stated, and besides the listed changes a Query made with
\* keepPreviousData goes from success straight to error when an attempt that
\* was started while it was in success fails as the current attempt.
C16_ListedMovesOrKeptSuccessFails ==
  [][ \A q \in QIds :
        /\ BornRight(q)
        /\ (query[q].made /\ query'[q].status # query[q].status)
             => \/ << query[q].status, query'[q].status >> \in ListedMoves
                \/ /\ << query[q].status, query'[q].status >> = << "success", "error" >>
                   /\ query[q].options.keepPreviousData
                   /\ SettlesCurrent(q)
                   /\ qEvent'.type = "reject"
                   /\ SettledCall.before[3] = "success"
        /\ (query[q].made /\ query'[q].status # query[q].status
              /\ ~query[q].options.keepPreviousData)
             => << query[q].status, query'[q].status >> \in ListedMoves
        /\ (query[q].made /\ StartsAttempt(q))
             => query'[q].status = StatusAfterStart(query[q]) ]_vars

\* A Query made with keepPreviousData: its first attempt was committed, its
\* second, started in success, has failed: it is in error and was never in
\* loading in between.
C16_Witness ==
  /\ qEvent.type = "reject"
  /\ qEvent.res = "threw"
  /\ qEvent.id = 2
  /\ query[qEvent.q].requestId = 2
  /\ query[qEvent.q].options.keepPreviousData
  /\ query[qEvent.q].status = "error"
  /\ query[qEvent.q].data = FetchValue(1)


\* ------------------------------------------- claims: sweep and window events
\* The cache lifetime of a Query: its own cacheTime, else the client's default.
Lifetime(r) ==
  IF "cacheTime" \in DOMAIN r.options THEN r.options.cacheTime
  ELSE DefaultCacheTime
\* Nobody is subscribed and the last update is longer ago than the lifetime.
Expired(r) == r.subCount = 0 /\ clock - r.lastUpdated > Lifetime(r)
SweepStep == qEvent'.type = "removeUnused" /\ calls' = calls + 1

\* C17: removeUnused deletes from the map exactly the entries with no
\* subscriber whose time since the last update exceeds the cache lifetime,
\* every other entry stays, no Query is changed; and no entry leaves the map
\* in any other way.
C17_SweepRemovesExactlyUnused ==
  [][ /\ SweepStep =>
           /\ \A h \in Hashes :
                queries'[h] = IF queries[h] # NoQuery /\ Expired(query[queries[h]])
                              THEN NoQuery ELSE queries[h]
           /\ << query, inflight, fetchCalls >>' = << query, inflight, fetchCalls >>
      /\ (\E h \in Hashes : queries[h] # NoQuery /\ queries'[h] = NoQuery)
           => SweepStep ]_vars

\* A sweep has removed an entry that had been updated and had outlived its
\* lifetime, and has kept one just as old that has a subscriber.
C17_Witness ==
  /\ qEvent.type = "removeUnused"
  /\ qEvent.arg # {}
  /\ \E q \in QIds :
       /\ query[q].made /\ q \notin InMap
       /\ query[q].lastUpdated > 0
       /\ query[q].subCount = 0
  /\ \E q \in InMap :
       /\ query[q].subCount > 0
       /\ query[q].lastUpdated > 0
       /\ clock - query[q].lastUpdated > Lifetime(query[q])


\* A switch of the options, on when it is not given (the client's default).
SwitchOn(r, name) ==
  IF name \in DOMAIN r.options THEN r.options[name] ELSE TRUE
FocusStep == qEvent'.type = "focus" /\ calls' = calls + 1
OnlineStep == qEvent'.type = "online" /\ calls' = calls + 1
\* The step has started one attempt for Query q.
OneAttemptStarted(q) ==
  /\ query'[q].requestId = query[q].requestId + 1
  /\ fetchCalls'[q] = fetchCalls[q] + 1
  /\ query'[q].isFetching
  /\ \E a \in inflight' : a \notin inflight /\ a.q = q /\ a.id = query'[q].requestId

\* C18: a focus event starts an attempt for exactly the Queries of the map
\* that have subCount > 0, are in success, are stale and have
\* refetchOnWindowFocus on; an online event for exactly those that have
\* subCount > 0, are in error and have refetchOnReconnect on; every other
\* Query is left as it was.
C18_WindowEventsRefetchExactly ==
  [][ /\ FocusStep =>
           \A q \in QIds :
             IF /\ q \in InMap
                /\ query[q].subCount > 0
                /\ query[q].status = "success"
                /\ clock - query[q].lastUpdated > staleTime(query[q])
                /\ SwitchOn(query[q], "refetchOnWindowFocus")
             THEN OneAttemptStarted(q) /\ q \in qEvent'.arg
             ELSE AllOf(q)' = AllOf(q)
      /\ OnlineStep =>
           \A q \in QIds :
             IF /\ q \in InMap
                /\ query[q].subCount > 0
                /\ query[q].status = "error"
                /\ SwitchOn(query[q], "refetchOnReconnect")
             THEN OneAttemptStarted(q) /\ q \in qEvent'.arg
             ELSE AllOf(q)' = AllOf(q) ]_vars

\* A subscribed Query was refetched by a focus event when it had gone stale,
\* failed that attempt, and has now been refetched by an online event.
C18_Witness ==
  /\ qEvent.type = "online"
  /\ \E q \in qEvent.arg :
       /\ query[q].requestId = 3
       /\ lastPlainCall[q] # Undefined
       /\ lastPlainCall[q] - query[q].lastUpdated > staleTime(query[q])
       /\ fetchCalls[q] = 3
       /\ query[q].subCount > 0
       /\ query[q].isFetching


\* ------------------------------------------------------ claims: flush order
FlushBeginStep == lastEvent'.type = "flushBegin"

\* C19: a flush takes the whole pending set as it is when the flush begins
\* and calls its members in the order they were added, those and no others;
\* what is scheduled while the flush is executing goes to the pending set of
\* the next flush, which is then scheduled on a microtask, and does not alter
\* what the running flush calls.
C19_FlushRunsSnapshotInOrder ==
  [][ /\ FlushBeginStep
           => /\ flushBatch' = effectQueue
              /\ toRun' = effectQueue
              /\ effectQueue' = << >>
              /\ invoked' = << >>
      /\ flushing' => invoked' \o toRun' = flushBatch'
      /\ (flushing /\ ~flushing') => invoked = flushBatch
      /\ (flushing /\ flushing') => flushBatch' = flushBatch
      /\ (flushing /\ invoked' # invoked)
           => (invoked' = Append(invoked, Head(toRun)) /\ toRun' = Tail(toRun))
      /\ \A e \in Effects :
           (flushing /\ fnCalls'[e] # fnCalls[e])
             => (toRun # << >> /\ e = Head(toRun) /\ invoked' = Append(invoked, e))
      /\ (flushing /\ effectQueue' # effectQueue)
           => /\ toRun' = toRun
              /\ invoked' = invoked
              /\ effectScheduled' /\ microtasks' = 1
      /\ effectQueue' # << >> => (effectScheduled' /\ microtasks' = 1) ]_vars

\* A flush of two effects has ended; the first of them wrote a signal and so
\* scheduled an effect, which is pending for the next flush.
C19_Witness ==
  /\ lastEvent.type = "flushEnd"
  /\ Len(flushBatch) >= 2
  /\ invoked = flushBatch
  /\ effectQueue # << >>
  /\ effectScheduled
  /\ microtasks = 1
  /\ phase = "micro"


\* ---------------------------------------------- claims: update and its parts
UpdateStep == lastEvent'.type \in {"update", "effectUpdate"}

\* What write(fn(read())) leaves behind when made in the current state on
\* signal s with the updater Bump: the read registers the running effect, the
\* write then schedules the subscribers, that effect among them.
ReadThenWrite(s) ==
  LET subs1 == IF currentEffect # Null
               THEN [subs EXCEPT ![s] = SetAdd(@, currentEffect)] ELSE subs
      deps1 == IF currentEffect # Null
               THEN [deps EXCEPT ![currentEffect] = @ \cup {s}] ELSE deps
      v  == Bump(val[s])
      st == IF Equals(s, val[s], v) THEN SchedulerState
            ELSE ScheduleAll(SchedulerState, subs1[s])
  IN [val |-> IF Equals(s, val[s], v) THEN val ELSE [val EXCEPT ![s] = v],
      subs |-> subs1, deps |-> deps1, st |-> st]

\* What the setter alone leaves behind: the subscribers registered before the
\* call are scheduled, nothing is registered.
WriteOnly(s) ==
  LET v == Bump(val[s])
  IN [val |-> IF Equals(s, val[s], v) THEN val ELSE [val EXCEPT ![s] = v],
      subs |-> subs, deps |-> deps,
      st |-> IF Equals(s, val[s], v) THEN SchedulerState
             ELSE ScheduleAll(SchedulerState, subs[s])]

Outcome == [val |-> val, subs |-> subs, deps |-> deps, st |-> SchedulerState]

\* C20 as stated: every update leaves the stored value, the scheduled effects
\* and the dependency registrations as a read followed by a write would.
C20_UpdateIsReadThenWrite ==
  [][UpdateStep => Outcome' = ReadThenWrite(lastEvent'.sig)]_vars

\* C20: update stores the value a read followed by a write would store, and
\* outside an effect's run it schedules and registers exactly as they would;
\* during an effect's run it registers nothing, so the running effect is
\* scheduled by its own update only if it had subscribed before.
C20_UpdateWritesWithoutTracking ==
  [][UpdateStep =>
       /\ val' = ReadThenWrite(lastEvent'.sig).val
       /\ Outcome' = WriteOnly(lastEvent'.sig)
       /\ currentEffect = Null => Outcome' = ReadThenWrite(lastEvent'.sig)]_vars

\* The effect upd has updated b during its run: the value changed and the
\* subscribers of b were scheduled, but upd is neither subscribed to b nor
\* scheduled, as it would be after reading b and writing it.
C20_Witness ==
  /\ lastEvent.type = "effectUpdate"
  /\ lastEvent.who = "upd"
  /\ lastEvent.sig = "b"
  /\ val["b"] = lastEvent.v
  /\ lastCommit["b"] = lastEvent.v
  /\ "comp" \in Range(effectQueue)
  /\ "upd" \notin Range(subs["b"])
  /\ "b" \notin deps["upd"]
  /\ "upd" \notin Range(effectQueue)


\* --------------------------------------------------- claims: nested effects
\* The effect whose runner is below the top of the stack, if any.
Below == IF Len(effectStack) >= 2 THEN effectStack[Len(effectStack) - 1].eff
         ELSE Null
ButLast(stk) == SubSeq(stk, 1, Len(stk) - 1)
Executing(stk) == IF stk = << >> THEN Null ELSE stk[Len(stk)].eff

\* C21: when a run of an effect ends, by returning or by throwing into a
\* catch of its creator, the current-effect pointer becomes the effect that
\* was running before it, or none; an uncaught exception leaves no effect
\* running.  So the pointer is always the effect whose function is executing:
\* a read registers that effect and no other, and a read made while no effect
\* is running registers nothing.
C21_PointerRestoredAfterRun ==
  [][ /\ lastEvent'.type \in {"return", "caught"}
           => /\ effectStack' = ButLast(effectStack)
              /\ currentEffect' = Below
      /\ lastEvent'.type = "throw"
           => (effectStack' = << >> /\ currentEffect' = Null)
      /\ currentEffect' = Executing(effectStack')
      /\ lastEvent'.type = "read"
           => /\ lastEvent'.who = Executing(effectStack)
              /\ subs' = [subs EXCEPT ![lastEvent'.sig] = SetAdd(@, lastEvent'.who)]
              /\ deps' = [deps EXCEPT ![lastEvent'.who] = @ \cup {lastEvent'.sig}]
      /\ lastEvent'.type = "envRead"
           => (currentEffect = Null /\ subs' = subs /\ deps' = deps) ]_vars

\* outer has read b after the effect it created threw into outer's catch: b
\* has outer for a subscriber and a has the nested effect.
C21_Witness ==
  /\ lastEvent.type = "read"
  /\ lastEvent.who = "outer"
  /\ lastEvent.sig = "b"
  /\ estate["in1"] = "failed"
  /\ currentEffect = "outer"
  /\ subs["b"] = << "outer" >>
  /\ subs["a"] = << "in1" >>
  /\ deps["outer"] = {"b"}
  /\ deps["in1"] = {"a"}


\* ------------------------------------------------------- claims: disposal
\* C22: an effect whose disposer has been called is in no signal's subscriber
\* set and has an empty dependency set, in every state from then on.
C22_DisposedHasNoLinks ==
  \A e \in Effects :
    disposeCalls[e] > 0 => (Registered(e) = {} /\ deps[e] = {})


\* ---------------------------------------------- claims: superseded attempts
\* The attempt that settles in this step is no longer the current one.
SupersededSettles ==
  /\ Settles(qEvent')
  /\ qEvent'.id # query[qEvent'.q].requestId

\* C23: when the fetcher of a superseded attempt settles, by resolving or by
\* rejecting, none of onSuccess, onError and onSettled is called, no field of
\* the Query is written (status does not become error, error keeps its value)
\* and the promise of the run resolves with the Query's data; it does not
\* reject.
C23_SupersededDroppedSilently ==
  [][ SupersededSettles =>
        /\ qEvent'.arg = << >>
        /\ query' = query
        /\ qEvent'.res \in {"dropped", "ignored"}
        /\ qEvent'.res # "threw" ]_vars

\* The first attempt of a Query has rejected with an error after a second
\* attempt had been started: the Query is still loading, without an error.
C23_Witness ==
  /\ qEvent.type = "reject"
  /\ qEvent.v = "Error"
  /\ qEvent.res = "dropped"
  /\ qEvent.arg = << >>
  /\ qEvent.id = 1
  /\ query[qEvent.q].requestId = 2
  /\ query[qEvent.q].status = "loading"
  /\ query[qEvent.q].error = Null


\* ------------------------------------------------ claims: computed, glitches
\* The effect watch has just read the computed during a flush.
WatchReadInFlush ==
  /\ flushing
  /\ lastEvent.type = "read"
  /\ lastEvent.who = "watch"
  /\ lastEvent.sig = "tot"

C25_NoCallbackAfterUnsubscribe ==
  [][ \A w \in Wrappers :
        (lastEvent'.type = "callback" /\ lastEvent'.who = w) => wstate[w] # "off" ]_vars


\* -------------------------------------------------- claims: Query.subscribe
\* The listeners of Query q whose unsubscribe function has not been called.
Live(q) == { l \in Listeners : listeners[l].q = q /\ listeners[l].unsubscribed = 0 }

\* C26: the subCount of every Query is the number of listeners registered with
\* Query.subscribe whose unsubscribe function has not been called yet.
C26_SubCountIsLiveListeners ==
  \A q \in QIds : query[q].made => query[q].subCount = Cardinality(Live(q))


\* ------------------------------------------------ claims: query callbacks
\* The attempt that settles in this step is the current one.
CurrentSettles ==
  /\ Settles(qEvent')
  /\ qEvent'.id = query[qEvent'.q].requestId

\* C27: when the current attempt of a Query settles, exactly one of onSuccess
\* and onError is called and onSettled is called exactly once; and if the
\* fetcher resolved, the Query is left in status success with error null,
\* whatever the callbacks do.
C27_OneOutcomeCallbackOneSettled ==
  [][ CurrentSettles =>
        /\ Count(qEvent'.arg, "onSuccess") + Count(qEvent'.arg, "onError") = 1
        /\ Count(qEvent'.arg, "onSettled") = 1
        /\ qEvent'.type = "resolve"
             => /\ query'[qEvent'.q].status = "success"
                /\ query'[qEvent'.q].error = Null ]_vars


\* ------------------------------------------- claims: overlapping mutations
MSettles == mEvent'.type \in {"resolve", "reject"}
MResults == << mutation.data, mutation.status, mutation.error >>

\* C28: when a call of mutate settles that is not the most recently started
\* one, data, status and error keep their values and no callback is called;
\* and data changes, status becomes success or error, and error becomes an
\* error, only when the most recently started call settles.
C28_LatestMutationWins ==
  [][ /\ (MSettles /\ mEvent'.id # mutation.currentId)
           => (MResults' = MResults /\ mEvent'.cbs = << >>)
      /\ (\/ mutation'.data # mutation.data
          \/ (mutation'.status # mutation.status
                /\ mutation'.status \in {"success", "error"})
          \/ (mutation'.error # mutation.error /\ mutation'.error # Null))
           => (MSettles /\ mEvent'.id = mutation.currentId) ]_vars

\* The second call has resolved and written its result; now the first call
\* has failed: the result of the second stands and no error shows.
C28_Witness ==
  /\ mEvent.type = "reject"
  /\ mEvent.id = 1
  /\ mEvent.cbs = << >>
  /\ mutation.currentId = 2
  /\ mutation.status = "success"
  /\ mutation.data = MutationResult(2)
  /\ mutation.error = Null
  /\ mflight = {}


\* ------------------------------------------------ claims: a Query's fields
\* In this step the fetcher of the current attempt of Query q resolves: the
\* attempt commits.
CommitsSuccess(q) ==
  /\ qEvent'.type = "resolve"
  /\ qEvent'.q = q
  /\ qEvent'.id = query[q].requestId

\* C29: a Query in status success has a null error; its data and its
\* lastUpdated change only when a resolved attempt that is still the current
\* one commits (an attempt that fails, is aborted or is superseded changes
\* neither), data then being the fetched value and lastUpdated the time of the
\* commit, never earlier than before; data other than the initial data has
\* been committed at some time.
C29_DataOnlyByCommittedSuccess ==
  [][ \A q \in QIds :
        /\ query'[q].status = "success" => query'[q].error = Null
        /\ (query'[q].made /\ query'[q].data # query'[q].options.initialData)
             => query'[q].lastUpdated > 0
        /\ query[q].made =>
             /\ query'[q].data # query[q].data
                  => (CommitsSuccess(q) /\ query'[q].data = FetchValue(qEvent'.id))
             /\ query'[q].lastUpdated # query[q].lastUpdated
                  => (CommitsSuccess(q) /\ query'[q].lastUpdated = clock
                        /\ query'[q].lastUpdated >= query[q].lastUpdated)
             /\ (Settles(qEvent') /\ qEvent'.q = q /\ ~CommitsSuccess(q))
                  => (query'[q].data = query[q].data
                        /\ query'[q].lastUpdated = query[q].lastUpdated) ]_vars

\* A Query committed a success, time passed, and a later attempt has failed:
\* data and lastUpdated are those of the success, the status is error.
C29_Witness ==
  /\ qEvent.type = "reject"
  /\ qEvent.res = "threw"
  /\ query[qEvent.q].status = "error"
  /\ query[qEvent.q].error # Null
  /\ query[qEvent.q].data = FetchValue(1)
  /\ query[qEvent.q].lastUpdated > 0
  /\ query[qEvent.q].lastUpdated < clock
  /\ qEvent.id = 2


\* ------------------------------------------------ claims: no lost re-runs
\* The flush has called f: an effect's runner (which re-runs the function or,
\* disposed, returns at once) or a subscribe wrapper.
Called(f) ==
  /\ lastEvent.type \in {"rerun", "inert", "callback"}
  /\ lastEvent.who = f

\* C30: whenever the pending set is not empty a flush is scheduled on a
\* microtask; every effect or subscriber in the pending set is called by a
\* later flush; and, no effect or subscriber writing a signal, a non-empty
\* pending set leads to a state with nothing pending, nothing running and no
\* flush scheduled.
C30_NoRerunLost ==
  /\ [](effectQueue # << >> => (effectScheduled /\ microtasks > 0))
  /\ \A f \in Effects \cup Wrappers : (f \in Range(effectQueue)) ~> Called(f)
  /\ (effectQueue # << >>) ~> Quiescent

\* A flush that was scheduled by a write has called a subscriber and an
\* effect and has ended: nothing is pending and no flush is scheduled.
C30_Witness ==
  /\ lastEvent.type = "flushEnd"
  /\ Quiescent
  /\ ~effectScheduled
  /\ Len(flushBatch) >= 2
  /\ invoked = flushBatch
  /\ \E w \in Wrappers : w \in Range(flushBatch)
  /\ \E e \in TopEffects : e \in Range(flushBatch)

====
